---- MODULE Spec2Model ----
(***************************************************************************)
(* A model of seratosync: the App operations SyncLibrary, CleanDatabase,   *)
(* GenerateReport and SaveConfig (app.go), the serato package (database,   *)
(* crates, cleanup, backup, path prefix) and the library package (scan,    *)
(* crate plans, new-track detection), acting on the files they read and    *)
(* write.                                                                  *)
(*                                                                         *)
(* A Go string is a sequence of one-character strings, so that the path    *)
(* functions are computed character by character as the code does.        *)
(***************************************************************************)
EXTENDS Integers, Sequences, FiniteSets, TLC

(***************************************************************************)
(* Bounds of the model.                                                    *)
(***************************************************************************)
\* Invocations of SyncLibrary / CleanDatabase / GenerateReport in one run.
MaxOps == 2
\* The clock (unix seconds) runs from 0 to MaxTime.
MaxTime == 1
\* SaveConfig calls made while an invocation is in progress, in one run.
MaxRaces == 1
\* The longest path given to a path function called on its own.
MaxPathLen == 4
\* The longest list of tracks or records given to a function called on its own.
MaxList == 3

(***************************************************************************)
(* strings package: the functions the code uses.                           *)
(***************************************************************************)
\* strings.ReplaceAll(s, old, new) for a one-character old.
RECURSIVE ReplaceAll(_, _, _)
ReplaceAll(s, old, new) ==
    IF s = <<>> THEN <<>>
    ELSE (IF Head(s) = old THEN new ELSE <<Head(s)>>) \o ReplaceAll(Tail(s), old, new)

RECURSIVE TrimLeft(_, _)
TrimLeft(s, c) ==
    IF s # <<>> /\ Head(s) = c THEN TrimLeft(Tail(s), c) ELSE s

RECURSIVE TrimRight(_, _)
TrimRight(s, c) ==
    IF s # <<>> /\ s[Len(s)] = c THEN TrimRight(SubSeq(s, 1, Len(s) - 1), c) ELSE s

\* strings.Trim(s, cutset) for a one-character cutset.
Trim(s, c) ==
    TrimRight(TrimLeft(s, c), c)

\* strings.TrimSpace(s); the model's only white space is the blank.
TrimSpace(s) ==
    Trim(s, " ")

HasPrefix(s, p) ==
    Len(s) >= Len(p) /\ SubSeq(s, 1, Len(p)) = p

TrimPrefix(s, p) ==
    IF HasPrefix(s, p) THEN SubSeq(s, Len(p) + 1, Len(s)) ELSE s

\* strings.Contains(s, c) for a one-character c.
Contains(s, c) ==
    \E i \in 1..Len(s) : s[i] = c

\* strings.Split(s, sep) for a one-character sep.
RECURSIVE Split(_, _)
Split(s, sep) ==
    IF ~Contains(s, sep) THEN <<s>>
    ELSE LET i == CHOOSE k \in 1..Len(s) : s[k] = sep /\ \A j \in 1..(k - 1) : s[j] # sep
         IN  <<SubSeq(s, 1, i - 1)>> \o Split(SubSeq(s, i + 1, Len(s)), sep)

\* strings.Join(parts, sep).
RECURSIVE Join(_, _)
Join(parts, sep) ==
    IF parts = <<>> THEN <<>>
    ELSE IF Len(parts) = 1 THEN parts[1]
    ELSE parts[1] \o sep \o Join(Tail(parts), sep)

UpperCase ==
    <<"A", "B", "C", "D", "E", "F", "G", "H", "I", "J", "K", "L", "M",
      "N", "O", "P", "Q", "R", "S", "T", "U", "V", "W", "X", "Y", "Z">>

LowerCase ==
    <<"a", "b", "c", "d", "e", "f", "g", "h", "i", "j", "k", "l", "m",
      "n", "o", "p", "q", "r", "s", "t", "u", "v", "w", "x", "y", "z">>

\* strings.ToLower(s).
ToLower(s) ==
    [i \in 1..Len(s) |->
        IF \E k \in 1..Len(UpperCase) : UpperCase[k] = s[i]
        THEN LowerCase[CHOOSE k \in 1..Len(UpperCase) : UpperCase[k] = s[i]]
        ELSE s[i]]

\* The NUL character "\x00".
NUL ==
    "NUL"

\* filepath.Separator of the build.
Separator ==
    "/"

(***************************************************************************)
(* serato/prefix.go, serato/crates.go                                      *)
(***************************************************************************)
CleanPath(path) ==
    LET p  == ReplaceAll(path, "\\", <<"/">>)
        p2 == IF Len(p) >= 2 /\ p[2] = ":" THEN SubSeq(p, 3, Len(p)) ELSE p
    IN  Trim(p2, "/")

BuildPtrk(prefix, relFile) ==
    LET parts == (IF prefix # <<>> THEN <<prefix>> ELSE <<>>) \o Split(relFile, Separator)
    IN  Join(parts, <<"/">>)

\* The crate file of a directory: filepath.Join(seratoRoot, "Subcrates", name),
\* kept as the pair of the Serato root and the crate's file name.
CratePathForDir(seratoRoot, dirRel) ==
    [root |-> seratoRoot,
     name |-> ReplaceAll(dirRel, Separator, <<"%", "%">>) \o <<".", "c", "r", "a", "t", "e">>]

(***************************************************************************)
(* The files of the model: one music library root holding audio files in   *)
(* the root and in the directories H and T, and one Serato directory.      *)
(***************************************************************************)
\* music_library_path "/M"; CleanPath makes it the library prefix "M".
LibRoot ==
    <<"/", "M">>

\* serato_db_path "S"; the database is filepath.Join("S", "database V2").
SeratoDir ==
    <<"S">>

FileR ==
    <<"r">>

FileHb ==
    <<"H", "/", "b">>

FileHc ==
    <<"H", "/", "c">>

FileTd ==
    <<"T", "/", "d">>

\* A file of the root whose name has a colon as its second character.
FileColon ==
    <<"1", ":", "i">>

\* The audio files that may exist below LibRoot, in filepath.Walk's (lexical) order.
WalkOrder ==
    <<FileColon, FileHb, FileHc, FileTd, FileR>>

AudioFiles ==
    {WalkOrder[i] : i \in 1..Len(WalkOrder)}

\* The libraries a run may start from.
Libraries ==
    {{FileHb, FileTd}, {FileR, FileHb, FileHc}}

\* A library that holds a file named with a colon.
ColonLibraries ==
    {{FileColon, FileHb}}

\* Database records: a record maps its tags to their values.
RecHb ==
    [pfil |-> <<"M", "/", "H", "/", "b">>, ttit |-> <<"t">>]

\* A track of another drive, outside the library prefix.
RecX ==
    [pfil |-> <<"X", "/", "y">>, talb |-> <<"l">>]

\* A record without metadata, as SyncLibrary inserts them.
RecTd ==
    [pfil |-> <<"M", "/", "T", "/", "d">>]

\* The absent file.
NoFile ==
    [exists |-> FALSE]

\* A database file holding the otrk records recs; torn when its last chunk is cut off.
DbFile(recs, torn) ==
    [exists |-> TRUE, recs |-> recs, torn |-> torn]

\* The database files a run may start from.
InitialDatabases ==
    {NoFile, DbFile(<<RecX, RecHb, RecTd>>, FALSE)}

\* The values of serato_db_path and music_library_path.
SeratoRoots ==
    {<<>>, SeratoDir}

\* a.config before a configuration is loaded: the nil pointer.
NilConfig ==
    [nil |-> TRUE]

Config(s, m) ==
    [nil |-> FALSE, SeratoDBPath |-> s, MusicLibraryPath |-> m]

\* The configurations of the model: nothing set, only the Serato directory set,
\* both paths set.
Configs ==
    {Config(<<>>, <<>>), Config(SeratoDir, <<>>), Config(SeratoDir, LibRoot)}

(***************************************************************************)
(* library/library.go                                                      *)
(***************************************************************************)
\* filepath.Rel(libraryRoot, filepath.Dir(path)) of a file given relative to the root.
RelDir(relFile) ==
    IF ~Contains(relFile, Separator) THEN <<".">>
    ELSE LET i == CHOOSE k \in 1..Len(relFile) :
                      relFile[k] = Separator /\ \A j \in (k + 1)..Len(relFile) : relFile[j] # Separator
         IN  SubSeq(relFile, 1, i - 1)

\* The map ScanLibrary returns for a root that holds the audio files `files`.
ScanLibrary(files) ==
    [d \in {RelDir(f) : f \in files} |->
        SelectSeq(WalkOrder, LAMBDA f : f \in files /\ RelDir(f) = d)]

\* The orders in which a range over the map's keys may visit them.
RangeOrders(libraryMap) ==
    {o \in [1..Cardinality(DOMAIN libraryMap) -> DOMAIN libraryMap] :
        \A i, j \in DOMAIN o : i # j => o[i] # o[j]}

RECURSIVE Flatten(_, _)
Flatten(libraryMap, order) ==
    IF order = <<>> THEN <<>>
    ELSE libraryMap[Head(order)] \o Flatten(libraryMap, Tail(order))

\* A variant of BuildCratePlans that plans a crate for the root entry too.
RECURSIVE BuildCratePlansWithRoot(_, _, _, _)
BuildCratePlansWithRoot(libraryMap, order, prefix, seratoRoot) ==
    IF order = <<>> THEN <<>>
    ELSE LET relDir == Head(order)
             files  == libraryMap[relDir]
         IN  <<[CratePath  |-> CratePathForDir(seratoRoot, relDir),
                TrackPaths |-> [i \in 1..Len(files) |-> BuildPtrk(prefix, files[i])]]>>
             \o BuildCratePlansWithRoot(libraryMap, Tail(order), prefix, seratoRoot)

RECURSIVE BuildCratePlans(_, _, _, _)
BuildCratePlans(libraryMap, order, prefix, seratoRoot) ==
    IF order = <<>> THEN <<>>
    ELSE LET relDir == Head(order)
             files  == libraryMap[relDir]
             rest   == BuildCratePlans(libraryMap, Tail(order), prefix, seratoRoot)
         IN  IF relDir = <<".">> THEN rest
             ELSE <<[CratePath  |-> CratePathForDir(seratoRoot, relDir),
                     TrackPaths |-> [i \in 1..Len(files) |-> BuildPtrk(prefix, files[i])]]>>
                  \o rest

\* A variant of DetectNewTracks that reports every scanned track as new.
DetectNewTracksAll(trackPaths, existingPfilSet) ==
    trackPaths

\* A variant of DetectNewTracks that looks up the scanned path as it is.
DetectNewTracksRaw(trackPaths, existingPfilSet) ==
    SelectSeq(trackPaths, LAMBDA p : p \notin existingPfilSet)

DetectNewTracks(trackPaths, existingPfilSet) ==
    SelectSeq(trackPaths, LAMBDA p : CleanPath(p) \notin existingPfilSet)

(***************************************************************************)
(* serato: database read, cleanup, backup, database write                  *)
(***************************************************************************)
\* A variant of ReadDatabaseV2 that strips the prefix of every path without
\* the test of line 148.
ReadDatabaseV2StripAll(file, musicLibraryPath) ==
    IF ~file.exists \/ file.torn THEN [err |-> TRUE]
    ELSE LET records         == file.recs
             originalPfilSet == {CleanPath(records[i]["pfil"]) :
                                   i \in {k \in 1..Len(records) : "pfil" \in DOMAIN records[k]}}
             libraryPrefix   == CleanPath(musicLibraryPath)
             prefixWithSlash == IF libraryPrefix # <<>> THEN libraryPrefix \o <<"/">> ELSE <<>>
             strippedPfilSet == {TrimPrefix(pfil, prefixWithSlash) : pfil \in originalPfilSet}
         IN  [err |-> FALSE, records |-> records, pfilSet |-> strippedPfilSet,
              libraryPrefix |-> libraryPrefix]

\* ReadDatabaseV2 of a file: err when it cannot be opened or a chunk is cut off.
ReadDatabaseV2(file, musicLibraryPath) ==
    IF ~file.exists \/ file.torn THEN [err |-> TRUE]
    ELSE LET records         == file.recs
             originalPfilSet == {CleanPath(records[i]["pfil"]) :
                                   i \in {k \in 1..Len(records) : "pfil" \in DOMAIN records[k]}}
             libraryPrefix   == CleanPath(musicLibraryPath)
             prefixWithSlash == IF libraryPrefix # <<>> THEN libraryPrefix \o <<"/">> ELSE <<>>
             strippedPfilSet == {TrimPrefix(pfil, prefixWithSlash) :
                                   pfil \in {q \in originalPfilSet :
                                               libraryPrefix = <<>> \/ HasPrefix(q, prefixWithSlash)}}
         IN  [err |-> FALSE, records |-> records, pfilSet |-> strippedPfilSet,
              libraryPrefix |-> libraryPrefix]

\* record[tag].(string): the empty string when the tag is absent.
Text(record, tag) ==
    IF tag \in DOMAIN record THEN record[tag] ELSE <<>>

NoStats ==
    [OriginalCount |-> 0, RemovedNoPath |-> 0, RemovedNoMetadata |-> 0,
     RemovedDuplicates |-> 0, RemovedCorrupted |-> 0, FinalCount |-> 0]

\* A variant of the loop of CleanDatabaseRecords that looks for a duplicate
\* before it looks at the metadata.
RECURSIVE CleanLoopDuplicatesFirst(_, _, _, _, _, _)
CleanLoopDuplicatesFirst(records, removeDuplicates, requireMetadata, seenPaths, cleaned, stats) ==
    IF records = <<>> THEN [records |-> cleaned, stats |-> [stats EXCEPT !.FinalCount = Len(cleaned)]]
    ELSE LET record == Head(records)
             pfil   == Text(record, "pfil")
             norm   == ToLower(ReplaceAll(pfil, "\\", <<"/">>))
             next(seen, kept, st) ==
                 CleanLoopDuplicatesFirst(Tail(records), removeDuplicates, requireMetadata, seen, kept, st)
         IN  IF "pfil" \notin DOMAIN record \/ TrimSpace(pfil) = <<>>
             THEN next(seenPaths, cleaned, [stats EXCEPT !.RemovedNoPath = @ + 1])
             ELSE IF Len(pfil) < 3 \/ Contains(pfil, NUL)
             THEN next(seenPaths, cleaned, [stats EXCEPT !.RemovedCorrupted = @ + 1])
             ELSE IF removeDuplicates /\ norm \in seenPaths
             THEN next(seenPaths, cleaned, [stats EXCEPT !.RemovedDuplicates = @ + 1])
             ELSE IF requireMetadata /\ TrimSpace(Text(record, "ttit")) = <<>>
                     /\ TrimSpace(Text(record, "tart")) = <<>>
                     /\ TrimSpace(Text(record, "talb")) = <<>>
             THEN next(IF removeDuplicates THEN seenPaths \cup {norm} ELSE seenPaths,
                       cleaned, [stats EXCEPT !.RemovedNoMetadata = @ + 1])
             ELSE next(IF removeDuplicates THEN seenPaths \cup {norm} ELSE seenPaths,
                       Append(cleaned, record), stats)

\* A variant of the loop of CleanDatabaseRecords that drops a corrupted record
\* without counting it.
RECURSIVE CleanLoopCorruptedUncounted(_, _, _, _, _, _)
CleanLoopCorruptedUncounted(records, removeDuplicates, requireMetadata, seenPaths, cleaned, stats) ==
    IF records = <<>> THEN [records |-> cleaned, stats |-> [stats EXCEPT !.FinalCount = Len(cleaned)]]
    ELSE LET record == Head(records)
             pfil   == Text(record, "pfil")
             norm   == ToLower(ReplaceAll(pfil, "\\", <<"/">>))
             next(seen, kept, st) ==
                 CleanLoopCorruptedUncounted(Tail(records), removeDuplicates, requireMetadata,
                                             seen, kept, st)
         IN  IF "pfil" \notin DOMAIN record \/ TrimSpace(pfil) = <<>>
             THEN next(seenPaths, cleaned, [stats EXCEPT !.RemovedNoPath = @ + 1])
             ELSE IF Len(pfil) < 3 \/ Contains(pfil, NUL)
             THEN next(seenPaths, cleaned, stats)
             ELSE IF requireMetadata /\ TrimSpace(Text(record, "ttit")) = <<>>
                     /\ TrimSpace(Text(record, "tart")) = <<>>
                     /\ TrimSpace(Text(record, "talb")) = <<>>
             THEN next(seenPaths, cleaned, [stats EXCEPT !.RemovedNoMetadata = @ + 1])
             ELSE IF removeDuplicates /\ norm \in seenPaths
             THEN next(seenPaths, cleaned, [stats EXCEPT !.RemovedDuplicates = @ + 1])
             ELSE next(IF removeDuplicates THEN seenPaths \cup {norm} ELSE seenPaths,
                       Append(cleaned, record), stats)

RECURSIVE CleanLoop(_, _, _, _, _, _)
CleanLoop(records, removeDuplicates, requireMetadata, seenPaths, cleaned, stats) ==
    IF records = <<>> THEN [records |-> cleaned, stats |-> [stats EXCEPT !.FinalCount = Len(cleaned)]]
    ELSE LET record == Head(records)
             pfil   == Text(record, "pfil")
             norm   == ToLower(ReplaceAll(pfil, "\\", <<"/">>))
             next(seen, kept, st) ==
                 CleanLoop(Tail(records), removeDuplicates, requireMetadata, seen, kept, st)
         IN  IF "pfil" \notin DOMAIN record \/ TrimSpace(pfil) = <<>>
             THEN next(seenPaths, cleaned, [stats EXCEPT !.RemovedNoPath = @ + 1])
             ELSE IF Len(pfil) < 3 \/ Contains(pfil, NUL)
             THEN next(seenPaths, cleaned, [stats EXCEPT !.RemovedCorrupted = @ + 1])
             ELSE IF requireMetadata /\ TrimSpace(Text(record, "ttit")) = <<>>
                     /\ TrimSpace(Text(record, "tart")) = <<>>
                     /\ TrimSpace(Text(record, "talb")) = <<>>
             THEN next(seenPaths, cleaned, [stats EXCEPT !.RemovedNoMetadata = @ + 1])
             ELSE IF removeDuplicates /\ norm \in seenPaths
             THEN next(seenPaths, cleaned, [stats EXCEPT !.RemovedDuplicates = @ + 1])
             ELSE next(IF removeDuplicates THEN seenPaths \cup {norm} ELSE seenPaths,
                       Append(cleaned, record), stats)

CleanDatabaseRecords(records, removeDuplicates, requireMetadata) ==
    CleanLoop(records, removeDuplicates, requireMetadata, {}, <<>>,
              [NoStats EXCEPT !.OriginalCount = Len(records)])

\* What a write of the records recs that fails part-way leaves in the file
\* os.Create truncated: nothing when the first chunk cannot be written, or the
\* chunks before the last one and the last one cut off.
PartialWrites(recs) ==
    {DbFile(<<>>, FALSE), DbFile(SubSeq(recs, 1, Len(recs) - 1), TRUE)}

\* The ways the file system lets a write of a whole file end.
WriteOutcomes ==
    {"ok", "createfail", "partial"}

(***************************************************************************)
(* The state.                                                              *)
(***************************************************************************)
VARIABLES
    started,    \* startup has run
    config,     \* a.config
    library,    \* the audio files below LibRoot, relative to it
    db,         \* per Serato root, the file "database V2"
    backups,    \* per Serato root and unix second, the file "database V2.backup.<second>"
    crates,     \* the crate files under "Subcrates", by crate path
    now,        \* the latest value time.Now().Unix() has returned
    races,      \* SaveConfig calls made so far while an invocation was in progress
    ops,        \* invocations started so far
    inv,        \* per invocation: the operation, where it is, its local variables
    fn          \* a call of one function of the packages: its name, arguments, result

vars ==
    <<started, config, library, db, backups, crates, now, races, ops, inv, fn>>

\* No function is being called on its own.
NoCall ==
    [f |-> "none", ret |-> <<>>]

Invocations ==
    1..MaxOps

\* An invocation that has not been started. The fields from `libraryMap` to
\* `cratesWritten` are the operation's local variables, gone when it returns.
\* The others stay: the operation, where it is, what it returned, the counts
\* of the summary SyncLibrary logs, and a record of what it has done: the
\* calls made (`steps`), those that returned an error (`failed`), the crate
\* files it has modified and whether its database write took place.
NotStarted ==
    [op |-> "none", pc |-> "idle", result |-> "none",
     libraryMap |-> <<>>, dbPath |-> <<>>,
     existingRecords |-> <<>>, pfilSet |-> {}, libraryPrefix |-> <<>>,
     newRelativePaths |-> <<>>, cratePlans |-> <<>>, planIdx |-> 0,
     crateCalls |-> {}, cratesWritten |-> 0,
     summary |-> [new |-> 0, added |-> 0, crates |-> 0],
     steps |-> <<>>, failed |-> {}, crateMods |-> {}, dbWrite |-> "none"]

InProgress ==
    {i \in Invocations : inv[i].pc \notin {"idle", "done"}}

Init ==
    /\ started = FALSE
    /\ config = NilConfig
    /\ library \in Libraries
    /\ \E file \in InitialDatabases : db = [r \in SeratoRoots |-> IF r = SeratoDir THEN file ELSE NoFile]
    /\ backups = [k \in SeratoRoots \X (0..MaxTime) |-> NoFile]
    /\ crates = <<>>
    /\ now = 0
    /\ races = 0
    /\ ops = 0
    /\ inv = [i \in Invocations |-> NotStarted]
    /\ fn = NoCall

(***************************************************************************)
(* app.go: startup, SaveConfig.                                            *)
(***************************************************************************)
\* startup: a.config stays nil when GetDefaultConfigPath or LoadConfig fails;
\* LoadConfig returns the empty Config when the file does not exist.
startup ==
    /\ ~started
    /\ started' = TRUE
    /\ config' \in {NilConfig} \cup Configs
    /\ UNCHANGED <<fn, library, db, backups, crates, now, races, ops, inv>>

\* SaveConfig(cfg) with a configuration that differs from the current one.
SaveConfig(cfg) ==
    /\ started
    /\ cfg # config
    /\ InProgress # {} => races < MaxRaces
    /\ config' = cfg
    /\ races' = IF InProgress # {} THEN races + 1 ELSE races
    /\ UNCHANGED <<fn, started, library, db, backups, crates, now, ops, inv>>

(***************************************************************************)
(* serato.BackupDatabase and serato.WriteDatabaseV2Records on the files.   *)
(***************************************************************************)
\* What a copy of `file` that fails part-way leaves in the destination.
PartialCopies(file) ==
    IF file.exists THEN {DbFile(SubSeq(file.recs, 1, Len(file.recs) - 1), TRUE)} ELSE {NoFile}

\* BackupDatabase(dbPath) when time.Now().Unix() returns timestamp: the error it
\* returns and the backup files after it; `left` is what a failing io.Copy has
\* put into the backup file.
BackupDatabase(dbPath, timestamp, outcome, left) ==
    IF ~db[dbPath].exists \/ outcome = "createfail"
    THEN [err |-> TRUE, backups |-> backups]
    ELSE IF outcome = "partial"
    THEN [err |-> TRUE, backups |-> [backups EXCEPT ![<<dbPath, timestamp>>] = left]]
    ELSE [err |-> FALSE, backups |-> [backups EXCEPT ![<<dbPath, timestamp>>] = db[dbPath]]]

\* WriteDatabaseV2Records(path, records): the error it returns and the file after
\* it; `left` is what a failing write has put into the file.
WriteDatabaseV2Records(path, records, outcome, left) ==
    IF outcome = "createfail" THEN [err |-> TRUE, file |-> db[path]]
    ELSE IF outcome = "partial" THEN [err |-> TRUE, file |-> left]
    ELSE [err |-> FALSE, file |-> DbFile(records, FALSE)]

(***************************************************************************)
(* app.go: SyncLibrary, one action per call that reads or writes files.    *)
(***************************************************************************)
\* The invocation returns and its local variables are gone: `result` is "ok"
\* (nil error), "error" (non-nil error) or "panic" (a nil-pointer dereference:
\* the method does not return).
Return(me, result) ==
    [NotStarted EXCEPT !.op = me.op, !.pc = "done", !.result = result,
                       !.summary = me.summary, !.steps = me.steps, !.failed = me.failed,
                       !.crateMods = me.crateMods, !.dbWrite = me.dbWrite]

\* The call `step` of the invocation returns an error.
Fail(me, step) ==
    [me EXCEPT !.failed = @ \cup {step}]

\* The host calls a bound method: the next invocation starts, when fewer than
\* `limit` invocations are in progress.
MayBegin(i, limit) ==
    /\ started
    /\ i = ops + 1
    /\ ops < MaxOps
    /\ Cardinality(InProgress) < limit

\* Lines 70-83: the configuration check.
SyncLibrary_Begin(i, limit) ==
    /\ MayBegin(i, limit)
    /\ ops' = ops + 1
    /\ inv' = [inv EXCEPT ![i] =
          LET me == [inv[i] EXCEPT !.op = "sync", !.steps = <<"config">>]
          IN  IF config.nil THEN Return(me, "panic")
              ELSE IF config.SeratoDBPath = <<>> \/ config.MusicLibraryPath = <<>>
              THEN Return(Fail(me, "config"), "error")
              ELSE [me EXCEPT !.pc = "s_scan"]]
    /\ UNCHANGED <<fn, started, config, library, db, backups, crates, now, races>>

\* Lines 85-93: library.ScanLibrary(a.config.MusicLibraryPath); the walk fails
\* on a root that does not exist and on any I/O error below it.
SyncLibrary_Scan(i) ==
    /\ inv[i].pc = "s_scan"
    /\ \E ioError \in BOOLEAN :
          inv' = [inv EXCEPT ![i] =
             LET me == [inv[i] EXCEPT !.steps = Append(@, "scan")]
             IN  IF config.MusicLibraryPath # LibRoot \/ ioError
                 THEN Return(Fail(me, "scan"), "error")
                 ELSE [me EXCEPT !.pc = "s_read", !.libraryMap = ScanLibrary(library)]]
    /\ UNCHANGED <<fn, started, config, library, db, backups, crates, now, races, ops>>

\* Lines 110-118: serato.ReadDatabaseV2(dbPath, a.config.MusicLibraryPath).
SyncLibrary_ReadDb(i) ==
    /\ inv[i].pc = "s_read"
    /\ inv' = [inv EXCEPT ![i] =
          LET dbPath == config.SeratoDBPath
              r      == ReadDatabaseV2(db[dbPath], config.MusicLibraryPath)
              me     == [inv[i] EXCEPT !.steps = Append(@, "read"), !.dbPath = dbPath]
          IN  IF r.err THEN Return(Fail(me, "read"), "error")
              ELSE [me EXCEPT !.pc = "s_plan", !.existingRecords = r.records,
                              !.pfilSet = r.pfilSet, !.libraryPrefix = r.libraryPrefix]]
    /\ UNCHANGED <<fn, started, config, library, db, backups, crates, now, races, ops>>

\* Lines 141-146: the full paths of the new tracks.
AffectedPtrks(libraryPrefix, newRelativePaths) ==
    {BuildPtrk(libraryPrefix, newRelativePaths[k]) : k \in 1..Len(newRelativePaths)}

\* A variant of the test of lines 155-161 that looks at the first track of the
\* plan only.
HasAffectedFirst(plan, affectedPtrks) ==
    plan.TrackPaths[1] \in affectedPtrks

\* Lines 155-161: whether a plan holds an affected track.
HasAffected(plan, affectedPtrks) ==
    \E k \in 1..Len(plan.TrackPaths) : plan.TrackPaths[k] \in affectedPtrks

\* Lines 153-164: the first plan from index `from` on that the loop writes,
\* Len(cratePlans) + 1 when there is none.
NextWrite(cratePlans, affectedPtrks, from) ==
    LET hits == {k \in from..Len(cratePlans) : HasAffected(cratePlans[k], affectedPtrks)}
    IN  IF hits = {} THEN Len(cratePlans) + 1
        ELSE CHOOSE k \in hits : \A j \in hits : k <= j

\* Lines 206-220: the counts of the summary, and the return of a nil error.
Summary(me, tracksAddedToDb) ==
    Return([me EXCEPT !.summary = [new    |-> Len(me.newRelativePaths),
                                   added  |-> tracksAddedToDb,
                                   crates |-> me.cratesWritten]], "ok")

\* Where SyncLibrary goes once the crate loop has reached plan index idx.
AfterCrates(me, idx) ==
    IF idx <= Len(me.cratePlans) THEN [me EXCEPT !.pc = "s_crate", !.planIdx = idx]
    ELSE IF Len(me.newRelativePaths) > 0 THEN [me EXCEPT !.pc = "s_backup", !.planIdx = idx]
    ELSE Summary(me, 0)

\* Lines 132-149: the new tracks and the crate plans; either range over the
\* library map visits the directories in an order of its own.
SyncLibrary_Plan(i) ==
    /\ inv[i].pc = "s_plan"
    /\ \E order1, order2 \in RangeOrders(inv[i].libraryMap) :
          inv' = [inv EXCEPT ![i] =
             LET relativeTrackPaths == Flatten(inv[i].libraryMap, order1)
                 newRelativePaths   == DetectNewTracks(relativeTrackPaths, inv[i].pfilSet)
                 affectedPtrks      == AffectedPtrks(inv[i].libraryPrefix, newRelativePaths)
                 cratePlans         == BuildCratePlans(inv[i].libraryMap, order2,
                                                       inv[i].libraryPrefix, config.SeratoDBPath)
                 me == [inv[i] EXCEPT !.steps = Append(@, "plan"),
                                      !.newRelativePaths = newRelativePaths,
                                      !.cratePlans = cratePlans]
             IN  AfterCrates(me, NextWrite(cratePlans, affectedPtrks, 1))]
    /\ UNCHANGED <<fn, started, config, library, db, backups, crates, now, races, ops>>

\* A crate file holding the tracks; vrsn is FALSE when the write failed before
\* the version chunk was written.
CrateFile(tracks, vrsn) ==
    [tracks |-> tracks, vrsn |-> vrsn]

\* serato.WriteCrateFile(outfile, trackPaths): the error it returns and the crate
\* files after it. "createfail": MkdirAll or os.Create fails; "partial": the
\* version chunk cannot be written to the file os.Create has truncated.
WriteCrateFile(outfile, trackPaths, outcome) ==
    IF outcome = "createfail" THEN [err |-> TRUE, crates |-> crates]
    ELSE IF outcome = "partial"
    THEN [err |-> TRUE, crates |-> (outfile :> CrateFile(<<>>, FALSE)) @@ crates]
    ELSE [err |-> FALSE, crates |-> (outfile :> CrateFile(trackPaths, TRUE)) @@ crates]

\* Lines 151-174: the write of the next crate that holds an affected track; its
\* error is logged and the loop goes on.
SyncLibrary_WriteCrate(i) ==
    /\ inv[i].pc = "s_crate"
    /\ \E outcome \in WriteOutcomes :
          LET me   == inv[i]
              plan == me.cratePlans[me.planIdx]
              w    == WriteCrateFile(plan.CratePath, plan.TrackPaths, outcome)
              affectedPtrks == AffectedPtrks(me.libraryPrefix, me.newRelativePaths)
              me2  == [me EXCEPT !.steps = Append(@, "crate"),
                                 !.failed = IF w.err THEN @ \cup {"crate"} ELSE @,
                                 !.crateCalls = @ \cup {me.planIdx},
                                 !.cratesWritten = IF w.err THEN @ ELSE @ + 1,
                                 !.crateMods = IF w.crates = crates THEN @
                                               ELSE @ \cup {plan.CratePath}]
          IN  /\ crates' = w.crates
              /\ inv' = [inv EXCEPT ![i] =
                    AfterCrates(me2, NextWrite(me.cratePlans, affectedPtrks, me.planIdx + 1))]
    /\ UNCHANGED <<fn, started, config, library, db, backups, now, races, ops>>

\* Lines 189-195: serato.BackupDatabase(dbPath); its error is logged.
SyncLibrary_Backup(i) ==
    /\ inv[i].pc = "s_backup"
    /\ \E timestamp \in now..MaxTime, outcome \in WriteOutcomes,
          left \in PartialCopies(db[inv[i].dbPath]) :
          LET b  == BackupDatabase(inv[i].dbPath, timestamp, outcome, left)
              me == [inv[i] EXCEPT !.steps = Append(@, "backup")]
          IN  /\ backups' = b.backups
              /\ now' = timestamp
              /\ inv' = [inv EXCEPT ![i] =
                    [(IF b.err THEN Fail(me, "backup") ELSE me) EXCEPT !.pc = "s_write"]]
    /\ UNCHANGED <<fn, started, config, library, db, crates, races, ops>>

\* Lines 179-185: one record per new track, holding only its path.
NewRecords(libraryPrefix, newRelativePaths) ==
    [k \in 1..Len(newRelativePaths) |-> [pfil |-> BuildPtrk(libraryPrefix, newRelativePaths[k])]]

\* A variant of line 187 that puts the new records first.
AllRecordsNewFirst(existingRecords, newRecords) ==
    newRecords \o existingRecords

\* Line 187: allRecords := append(existingRecords, newRecords...).
AllRecords(existingRecords, newRecords) ==
    existingRecords \o newRecords

\* Lines 197-203: the rewrite of the database with the new records; its error
\* is logged and SyncLibrary returns the summary and a nil error.
SyncLibrary_WriteDb(i) ==
    /\ inv[i].pc = "s_write"
    /\ LET me         == inv[i]
           newRecords == NewRecords(me.libraryPrefix, me.newRelativePaths)
           allRecords == AllRecords(me.existingRecords, newRecords)
       IN  \E outcome \in WriteOutcomes, left \in PartialWrites(allRecords) :
              LET w   == WriteDatabaseV2Records(me.dbPath, allRecords, outcome, left)
                  me2 == [me EXCEPT !.steps = Append(@, "write"),
                                    !.dbWrite = IF w.err THEN "failed" ELSE "ok"]
              IN  /\ db' = [db EXCEPT ![me.dbPath] = w.file]
                  /\ inv' = [inv EXCEPT ![i] =
                        IF w.err THEN Summary(Fail(me2, "write"), 0)
                        ELSE Summary(me2, Len(me.newRelativePaths))]
    /\ UNCHANGED <<fn, started, config, library, backups, crates, now, races, ops>>

(***************************************************************************)
(* app.go: GenerateReport and CleanDatabase.                               *)
(***************************************************************************)
\* Lines 228-236.
GenerateReport_Begin(i, limit) ==
    /\ MayBegin(i, limit)
    /\ ops' = ops + 1
    /\ inv' = [inv EXCEPT ![i] =
          LET me == [inv[i] EXCEPT !.op = "report", !.steps = <<"config">>]
          IN  IF config.nil THEN Return(me, "panic")
              ELSE IF config.SeratoDBPath = <<>> THEN Return(Fail(me, "config"), "error")
              ELSE [me EXCEPT !.pc = "r_read", !.dbPath = config.SeratoDBPath]]
    /\ UNCHANGED <<fn, started, config, library, db, backups, crates, now, races>>

\* Lines 237-245.
GenerateReport_Read(i) ==
    /\ inv[i].pc = "r_read"
    /\ inv' = [inv EXCEPT ![i] =
          LET r  == ReadDatabaseV2(db[inv[i].dbPath], <<>>)
              me == [inv[i] EXCEPT !.steps = Append(@, "read")]
          IN  IF r.err THEN Return(Fail(me, "read"), "error") ELSE Return(me, "ok")]
    /\ UNCHANGED <<fn, started, config, library, db, backups, crates, now, races, ops>>

\* A variant of lines 249-257 that goes to the read, leaving the backup out.
CleanDatabase_BeginAtRead(i, limit) ==
    /\ MayBegin(i, limit)
    /\ ops' = ops + 1
    /\ inv' = [inv EXCEPT ![i] =
          LET me == [inv[i] EXCEPT !.op = "clean", !.steps = <<"config">>]
          IN  IF config.nil THEN Return(me, "panic")
              ELSE IF config.SeratoDBPath = <<>> THEN Return(Fail(me, "config"), "error")
              ELSE [me EXCEPT !.pc = "c_read", !.dbPath = config.SeratoDBPath]]
    /\ UNCHANGED <<fn, started, config, library, db, backups, crates, now, races>>

\* Lines 249-257.
CleanDatabase_Begin(i, limit) ==
    /\ MayBegin(i, limit)
    /\ ops' = ops + 1
    /\ inv' = [inv EXCEPT ![i] =
          LET me == [inv[i] EXCEPT !.op = "clean", !.steps = <<"config">>]
          IN  IF config.nil THEN Return(me, "panic")
              ELSE IF config.SeratoDBPath = <<>> THEN Return(Fail(me, "config"), "error")
              ELSE [me EXCEPT !.pc = "c_backup", !.dbPath = config.SeratoDBPath]]
    /\ UNCHANGED <<fn, started, config, library, db, backups, crates, now, races>>

\* Lines 259-265.
CleanDatabase_Backup(i) ==
    /\ inv[i].pc = "c_backup"
    /\ \E timestamp \in now..MaxTime, outcome \in WriteOutcomes,
          left \in PartialCopies(db[inv[i].dbPath]) :
          LET b  == BackupDatabase(inv[i].dbPath, timestamp, outcome, left)
              me == [inv[i] EXCEPT !.steps = Append(@, "backup")]
          IN  /\ backups' = b.backups
              /\ now' = timestamp
              /\ inv' = [inv EXCEPT ![i] =
                    IF b.err THEN Return(Fail(me, "backup"), "error")
                    ELSE [me EXCEPT !.pc = "c_read"]]
    /\ UNCHANGED <<fn, started, config, library, db, crates, races, ops>>

\* Lines 267-272.
CleanDatabase_Read(i) ==
    /\ inv[i].pc = "c_read"
    /\ inv' = [inv EXCEPT ![i] =
          LET r  == ReadDatabaseV2(db[inv[i].dbPath], <<>>)
              me == [inv[i] EXCEPT !.steps = Append(@, "read")]
          IN  IF r.err THEN Return(Fail(me, "read"), "error")
              ELSE [me EXCEPT !.pc = "c_write", !.existingRecords = r.records]]
    /\ UNCHANGED <<fn, started, config, library, db, backups, crates, now, races, ops>>

\* A variant of lines 274-286 that cleans without require-metadata.
CleanDatabase_WriteAnyMetadata(i) ==
    /\ inv[i].pc = "c_write"
    /\ LET me             == inv[i]
           cleanedRecords == CleanDatabaseRecords(me.existingRecords, TRUE, FALSE).records
       IN  \E outcome \in WriteOutcomes, left \in PartialWrites(cleanedRecords) :
              LET w   == WriteDatabaseV2Records(me.dbPath, cleanedRecords, outcome, left)
                  me2 == [me EXCEPT !.steps = @ \o <<"clean", "write">>,
                                    !.dbWrite = IF w.err THEN "failed" ELSE "ok"]
              IN  /\ db' = [db EXCEPT ![me.dbPath] = w.file]
                  /\ inv' = [inv EXCEPT ![i] =
                        IF w.err THEN Return(Fail(me2, "write"), "error")
                        ELSE Return(me2, "ok")]
    /\ UNCHANGED <<fn, started, config, library, backups, crates, now, races, ops>>

\* Lines 274-286.
CleanDatabase_Write(i) ==
    /\ inv[i].pc = "c_write"
    /\ LET me             == inv[i]
           cleanedRecords == CleanDatabaseRecords(me.existingRecords, TRUE, TRUE).records
       IN  \E outcome \in WriteOutcomes, left \in PartialWrites(cleanedRecords) :
              LET w   == WriteDatabaseV2Records(me.dbPath, cleanedRecords, outcome, left)
                  me2 == [me EXCEPT !.steps = @ \o <<"clean", "write">>,
                                    !.dbWrite = IF w.err THEN "failed" ELSE "ok"]
              IN  /\ db' = [db EXCEPT ![me.dbPath] = w.file]
                  /\ inv' = [inv EXCEPT ![i] =
                        IF w.err THEN Return(Fail(me2, "write"), "error")
                        ELSE Return(me2, "ok")]
    /\ UNCHANGED <<fn, started, config, library, backups, crates, now, races, ops>>

(***************************************************************************)
(* The specifications. The host runs each call of a bound method on a      *)
(* thread of its own, app.go takes no lock and the page leaves its buttons *)
(* enabled while an operation runs. Under Spec an invocation may start     *)
(* while others are in progress. Under SpecSeq the user starts an          *)
(* operation, or saves the configuration, only after the operation before  *)
(* has returned. Under SpecRace the operations follow one another and the  *)
(* configuration may be saved while one is in progress.                    *)
(***************************************************************************)
Step(i) ==
    \/ SyncLibrary_Scan(i)
    \/ SyncLibrary_ReadDb(i)
    \/ SyncLibrary_Plan(i)
    \/ SyncLibrary_WriteCrate(i)
    \/ SyncLibrary_Backup(i)
    \/ SyncLibrary_WriteDb(i)
    \/ GenerateReport_Read(i)
    \/ CleanDatabase_Backup(i)
    \/ CleanDatabase_Read(i)
    \/ CleanDatabase_Write(i)

Begin(i, limit) ==
    \/ SyncLibrary_Begin(i, limit)
    \/ GenerateReport_Begin(i, limit)
    \/ CleanDatabase_Begin(i, limit)

Next ==
    \/ startup
    \/ \E cfg \in Configs : InProgress = {} /\ SaveConfig(cfg)
    \/ \E i \in Invocations : Begin(i, MaxOps)
    \/ \E i \in Invocations : Step(i)

Spec ==
    Init /\ [][Next]_vars

NextSeq ==
    \/ startup
    \/ \E cfg \in Configs : InProgress = {} /\ SaveConfig(cfg)
    \/ \E i \in Invocations : Begin(i, 1)
    \/ \E i \in Invocations : Step(i)

SpecSeq ==
    Init /\ [][NextSeq]_vars

\* Sequential use on a library that holds a file named with a colon.
InitColon ==
    /\ started = FALSE
    /\ config = NilConfig
    /\ library \in ColonLibraries
    /\ \E file \in InitialDatabases : db = [r \in SeratoRoots |-> IF r = SeratoDir THEN file ELSE NoFile]
    /\ backups = [k \in SeratoRoots \X (0..MaxTime) |-> NoFile]
    /\ crates = <<>>
    /\ now = 0
    /\ races = 0
    /\ ops = 0
    /\ inv = [i \in Invocations |-> NotStarted]
    /\ fn = NoCall

SpecColon ==
    InitColon /\ [][NextSeq]_vars

NextRace ==
    \/ startup
    \/ \E cfg \in Configs : SaveConfig(cfg)
    \/ \E i \in Invocations : Begin(i, 1)
    \/ \E i \in Invocations : Step(i)

SpecRace ==
    Init /\ [][NextRace]_vars

(***************************************************************************)
(* tlv/tlv.go and the bytes of the files. Here a byte is a number of        *)
(* 0..255, a []byte a sequence of bytes, a tag the sequence of its four     *)
(* bytes, and a text the sequence of its code points; the texts of the      *)
(* model hold no code point of the surrogate range or beyond U+FFFF.        *)
(***************************************************************************)
\* binary.BigEndian.PutUint32(lengthBytes, uint32(n)), least significant byte first.
PutUint32LittleEndian(n) ==
    <<n % 256, (n \div 256) % 256, (n \div 65536) % 256, (n \div 16777216) % 256>>

\* binary.BigEndian.PutUint32(lengthBytes, uint32(n)).
PutUint32(n) ==
    <<(n \div 16777216) % 256, (n \div 65536) % 256, (n \div 256) % 256, n % 256>>

\* binary.BigEndian.Uint32(b).
Uint32(b) ==
    b[1] * 16777216 + b[2] * 65536 + b[3] * 256 + b[4]

MakeChunk(tag, payload) ==
    tag \o PutUint32(Len(payload)) \o payload

Chunk(tag, value) ==
    [Tag |-> tag, Size |-> Len(value), Value |-> value]

\* A variant of IterTLV that stops at a chunk that is cut off and returns the
\* chunks before it.
RECURSIVE IterTLVLenient(_)
IterTLVLenient(data) ==
    IF Len(data) < 8 THEN [err |-> FALSE, chunks |-> <<>>]
    ELSE LET tag  == SubSeq(data, 1, 4)
             size == Uint32(SubSeq(data, 5, 8))
         IN  IF Len(data) - 8 < size THEN [err |-> FALSE, chunks |-> <<>>]
             ELSE [err    |-> FALSE,
                   chunks |-> <<Chunk(tag, SubSeq(data, 9, 8 + size))>>
                                 \o IterTLVLenient(SubSeq(data, 9 + size, Len(data))).chunks]

\* IterTLV of a reader that yields data: the chunks, or the error of a header
\* or a value that is cut off.
RECURSIVE IterTLV(_)
IterTLV(data) ==
    IF data = <<>> THEN [err |-> FALSE, chunks |-> <<>>]
    ELSE IF Len(data) < 8 THEN [err |-> TRUE, chunks |-> <<>>]
    ELSE LET tag  == SubSeq(data, 1, 4)
             size == Uint32(SubSeq(data, 5, 8))
         IN  IF Len(data) - 8 < size THEN [err |-> TRUE, chunks |-> <<>>]
             ELSE LET rest == IterTLV(SubSeq(data, 9 + size, Len(data)))
                  IN  IF rest.err THEN rest
                      ELSE [err    |-> FALSE,
                            chunks |-> <<Chunk(tag, SubSeq(data, 9, 8 + size))>> \o rest.chunks]

\* A variant of IterNestedTLV that returns no chunk of a buffer that is cut off.
RECURSIVE IterNestedTLVStrict(_)
IterNestedTLVStrict(buf) ==
    LET strict == IterTLV(buf)
    IN  IF strict.err THEN <<>> ELSE strict.chunks

\* IterNestedTLV never returns an error: it stops at a chunk that is cut off.
\* (int has 64 bits in the builds that are released, so start + int(size) does
\* not wrap.)
RECURSIVE IterNestedTLV(_)
IterNestedTLV(buf) ==
    IF Len(buf) < 8 THEN <<>>
    ELSE LET tag  == SubSeq(buf, 1, 4)
             size == Uint32(SubSeq(buf, 5, 8))
         IN  IF size > Len(buf) - 8 THEN <<>>
             ELSE <<Chunk(tag, SubSeq(buf, 9, 8 + size))>>
                  \o IterNestedTLV(SubSeq(buf, 9 + size, Len(buf)))

\* The replacement character U+FFFD.
RuneError ==
    65533

\* EncodeU16BE(s): two bytes per code point.
RECURSIVE EncodeU16BE(_)
EncodeU16BE(s) ==
    IF s = <<>> THEN <<>>
    ELSE <<Head(s) \div 256, Head(s) % 256>> \o EncodeU16BE(Tail(s))

\* DecodeU16BE(b): a code point per two bytes; the decoder turns a single
\* last byte into U+FFFD and returns no error.
RECURSIVE DecodeU16BE(_)
DecodeU16BE(b) ==
    IF b = <<>> THEN <<>>
    ELSE IF Len(b) = 1 THEN <<RuneError>>
    ELSE <<b[1] * 256 + b[2]>> \o DecodeU16BE(SubSeq(b, 3, Len(b)))

\* The tags "otrk", "vrsn" and "ptrk".
Otrk ==
    <<111, 116, 114, 107>>

Vrsn ==
    <<118, 114, 115, 110>>

Ptrk ==
    <<112, 116, 114, 107>>

\* Line 168: the tags whose values parseRecord decodes as text.
TextTags ==
    {<<112, 102, 105, 108>>, <<116, 116, 121, 112>>, <<116, 97, 100, 100>>,
     <<116, 97, 108, 98>>, <<116, 97, 114, 116>>, <<116, 116, 105, 116>>,
     <<116, 103, 101, 110>>, <<116, 107, 101, 121>>, <<116, 99, 111, 109>>,
     <<116, 103, 114, 112>>, <<116, 98, 105, 116>>, <<116, 115, 109, 112>>,
     <<116, 98, 112, 109>>, <<116, 108, 101, 110>>, <<116, 109, 111, 100>>}

\* "2.0/Serato Scratch LIVE Database"
DatabaseVrsn ==
    <<50, 46, 48, 47, 83, 101, 114, 97, 116, 111, 32, 83, 99, 114, 97, 116,
      99, 104, 32, 76, 73, 86, 69, 32, 68, 97, 116, 97, 98, 97, 115, 101>>

\* CrateVrsn, "1.0/Serato ScratchLive Crate"
CrateVrsn ==
    <<49, 46, 48, 47, 83, 101, 114, 97, 116, 111, 32, 83, 99, 114, 97, 116,
      99, 104, 76, 105, 118, 101, 32, 67, 114, 97, 116, 101>>

\* A value of a Record: a string or a []byte.
String(text) ==
    [type |-> "string", v |-> text]

Bytes(bytes) ==
    [type |-> "[]byte", v |-> bytes]

\* parseRecord, lines 166-178: the leaves in their order, a later leaf
\* replacing an earlier one of the same tag.
RECURSIVE ParseLeaves(_, _)
ParseLeaves(nestedChunks, record) ==
    IF nestedChunks = <<>> THEN record
    ELSE LET chunk == Head(nestedChunks)
             value == IF chunk.Tag \in TextTags
                      THEN String(DecodeU16BE(TrimRight(chunk.Value, 0)))
                      ELSE Bytes(chunk.Value)
         IN  ParseLeaves(Tail(nestedChunks), (chunk.Tag :> value) @@ record)

parseRecord(data) ==
    ParseLeaves(IterNestedTLV(data), <<>>)

\* parseRecord, lines 170-173: the error of a text leaf that DecodeU16BE does
\* not decode. The decoder is code of a library; `rejected` is the set of the
\* byte sequences for which it returns an error, empty for the decoder that
\* replaces what it cannot decode by U+FFFD.
parseRecordErr(data, rejected) ==
    LET nestedChunks == IterNestedTLV(data)
    IN  \E k \in 1..Len(nestedChunks) :
           /\ nestedChunks[k].Tag \in TextTags
           /\ TrimRight(nestedChunks[k].Value, 0) \in rejected

\* A variant of ReadDatabaseV2 that returns the error of a record.
ReadRecordsAborting(data, rejected) ==
    LET r     == IterTLV(data)
        otrks == SelectSeq(r.chunks, LAMBDA chunk : chunk.Tag = Otrk)
    IN  IF r.err \/ \E k \in 1..Len(otrks) : parseRecordErr(otrks[k].Value, rejected)
        THEN [err |-> TRUE, records |-> <<>>]
        ELSE [err |-> FALSE, records |-> [k \in 1..Len(otrks) |-> parseRecord(otrks[k].Value)]]

\* ReadDatabaseV2, lines 114-135, on the bytes of the file: the records of the
\* otrk chunks, without those for which parseRecord returns an error.
ReadRecordsRejecting(data, rejected) ==
    LET r     == IterTLV(data)
        otrks == SelectSeq(r.chunks, LAMBDA chunk :
                              chunk.Tag = Otrk /\ ~parseRecordErr(chunk.Value, rejected))
    IN  IF r.err THEN [err |-> TRUE, records |-> <<>>]
        ELSE [err |-> FALSE, records |-> [k \in 1..Len(otrks) |-> parseRecord(otrks[k].Value)]]

\* ReadDatabaseV2 with the decoder that returns no error.
ReadRecords(data) ==
    ReadRecordsRejecting(data, {})

\* A variant of lines 202-214 without the case of the []byte values.
RECURSIVE InnerBytesTextOnly(_, _)
InnerBytesTextOnly(record, keys) ==
    IF keys = <<>> THEN <<>>
    ELSE LET value == record[Head(keys)]
         IN  (IF value.type = "string" THEN MakeChunk(Head(keys), EncodeU16BE(value.v)) ELSE <<>>)
             \o InnerBytesTextOnly(record, Tail(keys))

\* Lines 202-214: the inner bytes of a record whose map the range visits in
\* the order `keys`.
RECURSIVE InnerBytes(_, _)
InnerBytes(record, keys) ==
    IF keys = <<>> THEN <<>>
    ELSE LET value   == record[Head(keys)]
             payload == IF value.type = "string" THEN EncodeU16BE(value.v) ELSE value.v
         IN  MakeChunk(Head(keys), payload) \o InnerBytes(record, Tail(keys))

\* A variant of the writer that writes no otrk chunk for a record without
\* fields.
RECURSIVE OtrkBytesOfFields(_, _)
OtrkBytesOfFields(records, orders) ==
    IF records = <<>> THEN <<>>
    ELSE (IF DOMAIN Head(records) = {} THEN <<>>
          ELSE MakeChunk(Otrk, InnerBytes(Head(records), Head(orders))))
         \o OtrkBytesOfFields(Tail(records), Tail(orders))

\* WriteDatabaseV2Records, lines 191-219: the bytes it writes for the records,
\* orders[k] being the order in which the range visits the fields of record k.
RECURSIVE OtrkBytes(_, _)
OtrkBytes(records, orders) ==
    IF records = <<>> THEN <<>>
    ELSE MakeChunk(Otrk, InnerBytes(Head(records), Head(orders)))
         \o OtrkBytes(Tail(records), Tail(orders))

DatabaseBytes(records, orders) ==
    MakeChunk(Vrsn, EncodeU16BE(DatabaseVrsn)) \o OtrkBytes(records, orders)

\* The orders in which the writer may visit the fields of the records.
RECURSIVE FieldOrders(_)
FieldOrders(records) ==
    IF records = <<>> THEN {<<>>}
    ELSE {<<o>> \o rest : o \in RangeOrders(Head(records)), rest \in FieldOrders(Tail(records))}

\* WriteCrateFile, lines 64-85: the bytes it writes for the track paths.
RECURSIVE CrateOtrkBytes(_)
CrateOtrkBytes(trackPaths) ==
    IF trackPaths = <<>> THEN <<>>
    ELSE MakeChunk(Otrk, MakeChunk(Ptrk, EncodeU16BE(Head(trackPaths))))
         \o CrateOtrkBytes(Tail(trackPaths))

CrateBytes(trackPaths) ==
    MakeChunk(Vrsn, EncodeU16BE(CrateVrsn)) \o CrateOtrkBytes(trackPaths)

\* A file holding the bytes data.
File(data) ==
    [exists |-> TRUE, data |-> data]

\* A variant of lines 114-122 of crates.go that trims the NUL bytes at the end
\* of a value, as parseRecord does.
PtrkPathsTrimmed(nestedChunks) ==
    LET ptrks == SelectSeq(nestedChunks, LAMBDA chunk : chunk.Tag = Ptrk)
    IN  [k \in 1..Len(ptrks) |-> DecodeU16BE(TrimRight(ptrks[k].Value, 0))]

\* Lines 114-122 of crates.go: the paths of the ptrk leaves of an otrk chunk.
PtrkPaths(nestedChunks) ==
    LET ptrks == SelectSeq(nestedChunks, LAMBDA chunk : chunk.Tag = Ptrk)
    IN  [k \in 1..Len(ptrks) |-> DecodeU16BE(ptrks[k].Value)]

RECURSIVE CratePaths(_)
CratePaths(chunks) ==
    IF chunks = <<>> THEN <<>>
    ELSE (IF Head(chunks).Tag = Otrk THEN PtrkPaths(IterNestedTLV(Head(chunks).Value)) ELSE <<>>)
         \o CratePaths(Tail(chunks))

\* ReadCrateFile of a file that exists (and can be opened) or does not exist.
ReadCrateFile(file) ==
    IF ~file.exists THEN [err |-> FALSE, trackPaths |-> <<>>]
    ELSE LET r == IterTLV(file.data)
         IN  IF r.err THEN [err |-> TRUE, trackPaths |-> <<>>]
             ELSE [err |-> FALSE, trackPaths |-> CratePaths(r.chunks)]

(***************************************************************************)
(* Calls of single functions of the packages, as a test makes them: under  *)
(* SpecFn a run is one call, with its arguments drawn from the sets below, *)
(* and the App is not started.                                             *)
(***************************************************************************)
\* The strings over alphabet of at most n characters.
Strings(alphabet, n) ==
    UNION {[1..k -> alphabet] : k \in 0..n}

\* The lists over elements of at most n entries.
Lists(elements, n) ==
    UNION {[1..k -> elements] : k \in 0..n}

PathAlphabet ==
    {"/", "\\", ":", "a"}

CleanPathCalls ==
    {[f |-> "CleanPath", path |-> x, ret |-> <<>>] : x \in Strings(PathAlphabet, MaxPathLen)}

ScannedPaths ==
    {<<"a">>, <<"/", "a">>, <<"b">>, <<"c">>}

DetectNewTracksCalls ==
    {[f |-> "DetectNewTracks", trackPaths |-> l, existingPfilSet |-> e, ret |-> <<>>] :
        l \in Lists(ScannedPaths, MaxList), e \in SUBSET {<<"a">>, <<"b">>}}

\* Records for the cleanup: without pfil, with a blank, a short and a NUL-holding
\* pfil, without metadata, with blank metadata, and with paths that differ in
\* case and slash direction only.
CleanupRecords ==
    {[ttit |-> <<"t">>],
     [pfil |-> <<" ", " ", " ">>, ttit |-> <<"t">>],
     [pfil |-> <<"a", "b">>, ttit |-> <<"t">>],
     [pfil |-> <<"a", NUL, "b">>, ttit |-> <<"t">>],
     [pfil |-> <<"a", "/", "b">>],
     [pfil |-> <<"a", "/", "b">>, talb |-> <<" ">>],
     [pfil |-> <<"a", "/", "b">>, ttit |-> <<"t">>],
     [pfil |-> <<"A", "\\", "B">>, tart |-> <<"r">>]}

\* A record with pfil "C:\Music\a.mp3".
RecWindows ==
    [pfil |-> <<"C", ":", "\\", "M", "u", "s", "i", "c", "\\", "a", ".", "m", "p", "3">>]

\* A record with pfil "/Music/a.mp3".
RecUnix ==
    [pfil |-> <<"/", "M", "u", "s", "i", "c", "/", "a", ".", "m", "p", "3">>]

CleanDatabaseRecordsCalls ==
    {[f |-> "CleanDatabaseRecords", records |-> l, removeDuplicates |-> d,
      requireMetadata |-> m, ret |-> <<>>] :
        l \in Lists(CleanupRecords, MaxList) \cup {<<RecWindows, RecUnix>>},
        d \in BOOLEAN, m \in BOOLEAN}

RECURSIVE Concat(_)
Concat(seqs) ==
    IF seqs = <<>> THEN <<>> ELSE Head(seqs) \o Concat(Tail(seqs))

\* Tags and payloads of chunks: the empty payload, one byte, and 256 bytes.
TagPayloads ==
    {[tag |-> t, payload |-> p] :
        t \in {Otrk, Vrsn, <<0, 0, 0, 0>>},
        p \in {<<>>, <<7>>, [i \in 1..256 |-> 0]}}

\* MakeChunk of each pair of a list, then IterTLV over the chunks put together.
IterTLVCalls ==
    {[f |-> "IterTLV", pairs |-> l, ret |-> <<>>] : l \in Lists(TagPayloads, MaxList)}

\* Track paths as texts: "", "a", "a/b", "a" followed by U+0000, and U+0100.
TrackPathTexts ==
    {<<>>, <<97>>, <<97, 47, 98>>, <<97, 0>>, <<256>>}

\* WriteCrateFile(p, trackPaths) that succeeds, then ReadCrateFile(p).
WriteReadCrateCalls ==
    {[f |-> "WriteReadCrate", trackPaths |-> l, ret |-> <<>>] :
        l \in Lists(TrackPathTexts, MaxList)}

\* ReadCrateFile of no file, of an empty file and of a file that is cut off.
ReadCrateFileCalls ==
    {[f |-> "ReadCrateFile", file |-> x, ret |-> <<>>] :
        x \in {NoFile, File(<<>>), File(SubSeq(CrateBytes(<<>>), 1, 10))}}

\* The tags "pfil", "ttit" and "uadd"; the last is not a text tag.
Pfil ==
    <<112, 102, 105, 108>>

Ttit ==
    <<116, 116, 105, 116>>

Uadd ==
    <<117, 97, 100, 100>>

\* The inner bytes of otrk chunks of a database: no leaf; pfil "a"; pfil "a" and
\* a title U+0100; pfil "a" and U+0000; a leaf of bytes and pfil "a"; two pfil
\* leaves; pfil "a" and three bytes more; a leaf of no bytes.
OtrkPayloads ==
    {<<>>,
     MakeChunk(Pfil, <<0, 97>>),
     MakeChunk(Pfil, <<0, 97>>) \o MakeChunk(Ttit, <<1, 0>>),
     MakeChunk(Pfil, <<0, 97, 0, 0>>),
     MakeChunk(Uadd, <<1, 0>>) \o MakeChunk(Pfil, <<0, 97>>),
     MakeChunk(Pfil, <<0, 97>>) \o MakeChunk(Pfil, <<0, 98>>),
     MakeChunk(Pfil, <<0, 97>>) \o <<1, 2, 3>>,
     MakeChunk(Uadd, <<>>)}

\* A database file of a vrsn chunk and the otrk chunks of the payloads.
DatabaseOf(payloads) ==
    MakeChunk(Vrsn, EncodeU16BE(DatabaseVrsn))
        \o Concat([k \in 1..Len(payloads) |-> MakeChunk(Otrk, payloads[k])])

\* ReadDatabaseV2 of a file, WriteDatabaseV2Records of the records it returned
\* into a file, ReadDatabaseV2 of that file.
ReadWriteReadCalls ==
    {[f |-> "ReadWriteRead", data |-> DatabaseOf(l), ret |-> <<>>] :
        l \in Lists(OtrkPayloads, MaxList)}

\* Records of a database: a track of the library M, a track of another root,
\* a record without pfil, a pfil that is the library root, a pfil of a root
\* whose name begins with M, a Windows path into M.
StoredRecords ==
    {[pfil |-> <<"/", "M", "/", "a">>],
     [pfil |-> <<"N", "/", "a">>, ttit |-> <<"t">>],
     [ttit |-> <<"t">>],
     [pfil |-> <<"M">>],
     [pfil |-> <<"M", "x", "/", "a">>],
     [pfil |-> <<"C", ":", "\\", "M", "\\", "a">>]}

\* Values of musicLibraryPath.
LibraryPaths ==
    {<<>>, <<"M">>, <<"/", "M", "/">>, <<"N">>}

ReadDatabaseV2Calls ==
    {[f |-> "ReadDatabaseV2", file |-> d, musicLibraryPath |-> m, ret |-> <<>>] :
        d \in {NoFile, DbFile(<<[pfil |-> <<"M", "/", "a">>]>>, TRUE)}
                \cup {DbFile(l, FALSE) : l \in Lists(StoredRecords, MaxList)},
        m \in LibraryPaths}

\* Tags and payloads of short chunks.
ShortPairs ==
    {[tag |-> t, payload |-> p] : t \in {Otrk, Pfil}, p \in {<<>>, <<7>>, <<7, 8>>}}

\* What follows the last whole chunk of a stream: nothing, one byte, seven
\* bytes of a header, a header that declares one byte and has none, a header
\* that declares two bytes and has one, a header that declares 2^31 - 1 bytes.
Tails ==
    {<<>>,
     <<1>>,
     Otrk \o <<0, 0, 0>>,
     Otrk \o <<0, 0, 0, 1>>,
     Otrk \o <<0, 0, 0, 2, 9>>,
     Otrk \o <<127, 255, 255, 255, 9>>}

\* The bytes of the chunks of the pairs, followed by the tail.
Stream(pairs, tail) ==
    Concat([k \in 1..Len(pairs) |-> MakeChunk(pairs[k].tag, pairs[k].payload)]) \o tail

\* IterTLV and IterNestedTLV of a stream of whole chunks and a tail.
StreamCalls ==
    {[f |-> g, pairs |-> l, tail |-> t, ret |-> <<>>] :
        g \in {"IterTLVStream", "IterNestedTLV"}, l \in Lists(ShortPairs, MaxList), t \in Tails}

\* Texts stored in a leaf: "", "a", "a" and U+0000, U+0100, U+0100 and U+0000,
\* "a" and U+0100, U+0000, U+0200 and "a".
StoredTexts ==
    {<<>>, <<97>>, <<97, 0>>, <<256>>, <<256, 0>>, <<97, 256>>, <<0>>, <<512, 97>>}

\* parseRecord of the one leaf that holds a text under a text tag.
parseRecordCalls ==
    {[f |-> "parseRecord", tag |-> t, text |-> x, ret |-> <<>>] :
        t \in {Pfil, Ttit}, x \in StoredTexts}

\* The byte sequences a decoder rejects: none, a single byte, the text "b".
Rejections ==
    {{}, {<<1>>}, {<<0, 98>>}}

\* ReadDatabaseV2 of a database of otrk chunks with a decoder that rejects.
ReadRecordsCalls ==
    {[f |-> "ReadRecords", payloads |-> l, rejected |-> r, ret |-> <<>>] :
        l \in Lists(OtrkPayloads, MaxList), r \in Rejections}

\* The entries of a library map: the root ".", the directories E, E/T/2, H
\* and the directory named E%%T%%2, each with its files relative to the
\* library root.
DirFiles ==
    (<<".">> :> << <<"r">> >>)
        @@ (<<"E", "%", "%", "T", "%", "%", "2">> :>
               << <<"E", "%", "%", "T", "%", "%", "2", "/", "z">> >>)
        @@ (<<"E">> :> << <<"E", "/", "a">>, <<"E", "/", "b">> >>)
        @@ (<<"E", "/", "T", "/", "2">> :> << <<"E", "/", "T", "/", "2", "/", "a">> >>)
        @@ (<<"H">> :> << <<"H", "/", "a">> >>)

\* BuildCratePlans of the library maps of some of the entries, with and
\* without a prefix.
BuildCratePlansCalls ==
    {[f |-> "BuildCratePlans", libraryMap |-> [d \in dirs |-> DirFiles[d]], prefix |-> x,
      seratoRoot |-> SeratoDir, ret |-> <<>>] :
        dirs \in SUBSET DOMAIN DirFiles, x \in {<<>>, <<"M">>}}

\* CleanDatabaseRecords of a list, then CleanDatabaseRecords with the same
\* flags of the list it returned.
CleanTwiceCalls ==
    {[f |-> "CleanTwice", records |-> l, removeDuplicates |-> d, requireMetadata |-> m,
      ret |-> <<>>] :
        l \in Lists(CleanupRecords, MaxList), d \in BOOLEAN, m \in BOOLEAN}

\* The tag "osrt", a top-level tag that is not otrk.
Osrt ==
    <<111, 115, 114, 116>>

\* Top-level chunks of a database file: otrk chunks of no leaf, of pfil "a",
\* of pfil "a" and a title U+0100, of a leaf of bytes and pfil "a"; a vrsn
\* chunk of the version "1"; an osrt chunk.
TopChunks ==
    {[tag |-> Otrk, payload |-> <<>>],
     [tag |-> Otrk, payload |-> MakeChunk(Pfil, <<0, 97>>)],
     [tag |-> Otrk, payload |-> MakeChunk(Pfil, <<0, 97>>) \o MakeChunk(Ttit, <<1, 0>>)],
     [tag |-> Otrk, payload |-> MakeChunk(Uadd, <<1, 0>>) \o MakeChunk(Pfil, <<0, 97>>)],
     [tag |-> Vrsn, payload |-> <<0, 49>>],
     [tag |-> Osrt, payload |-> <<1, 2>>]}

\* src/app.go line 182: the record of a new track, holding the pfil "b" or "c".
NewTrackRecords ==
    {Pfil :> String(<<98>>), Pfil :> String(<<99>>)}

\* The records a rewrite writes, given those it has read: SyncLibrary appends
\* the records of the new tracks, CleanDatabase writes the records the cleanup
\* has kept, here those at the indexes outside `removed`.
Rewrites ==
    {[op |-> "sync", new |-> n, removed |-> {}] :
        n \in {<<x>> : x \in NewTrackRecords} \cup {<<x, y>> : x, y \in NewTrackRecords}}
    \cup {[op |-> "clean", new |-> <<>>, removed |-> d] : d \in {{}, {1}, {2}}}

\* ReadDatabaseV2 of a file of the chunks, then WriteDatabaseV2Records as
\* SyncLibrary or CleanDatabase calls it.
RewriteCalls ==
    {[f |-> "Rewrite", chunks |-> l, rejected |-> r, rewrite |-> w, ret |-> <<>>] :
        l \in Lists(TopChunks, MaxList), r \in {{}, {<<1>>}}, w \in Rewrites}

\* The sets of calls, one per function.
Calls ==
    <<CleanPathCalls, DetectNewTracksCalls, CleanDatabaseRecordsCalls,
      IterTLVCalls, WriteReadCrateCalls, ReadCrateFileCalls,
      ReadWriteReadCalls, ReadDatabaseV2Calls, StreamCalls,
      parseRecordCalls, ReadRecordsCalls, BuildCratePlansCalls,
      CleanTwiceCalls, RewriteCalls>>

InitFn ==
    /\ started = FALSE
    /\ config = NilConfig
    /\ library = {}
    /\ db = [r \in SeratoRoots |-> NoFile]
    /\ backups = [k \in SeratoRoots \X (0..MaxTime) |-> NoFile]
    /\ crates = <<>>
    /\ now = 0
    /\ races = 0
    /\ ops = 0
    /\ inv = [i \in Invocations |-> NotStarted]
    /\ \E k \in 1..Len(Calls) : fn \in Calls[k]

\* The call of function f returns the value.
Returns(f, value) ==
    /\ fn.f = f
    /\ fn.ret = <<>>
    /\ fn' = [fn EXCEPT !.ret = <<value>>]
    /\ UNCHANGED <<started, config, library, db, backups, crates, now, races, ops, inv>>

\* The call of function f has returned.
Returned(f) ==
    fn.f = f /\ fn.ret # <<>>

Call_CleanPath ==
    /\ fn.f = "CleanPath"
    /\ Returns("CleanPath", CleanPath(fn.path))

Call_DetectNewTracks ==
    /\ fn.f = "DetectNewTracks"
    /\ Returns("DetectNewTracks", DetectNewTracks(fn.trackPaths, fn.existingPfilSet))

Call_CleanDatabaseRecords ==
    /\ fn.f = "CleanDatabaseRecords"
    /\ Returns("CleanDatabaseRecords",
               CleanDatabaseRecords(fn.records, fn.removeDuplicates, fn.requireMetadata))

Call_IterTLV ==
    /\ fn.f = "IterTLV"
    /\ LET made == [k \in 1..Len(fn.pairs) |-> MakeChunk(fn.pairs[k].tag, fn.pairs[k].payload)]
       IN  Returns("IterTLV", [made |-> made, iter |-> IterTLV(Concat(made))])

Call_WriteReadCrate ==
    /\ fn.f = "WriteReadCrate"
    /\ Returns("WriteReadCrate", ReadCrateFile(File(CrateBytes(fn.trackPaths))))

Call_ReadCrateFile ==
    /\ fn.f = "ReadCrateFile"
    /\ Returns("ReadCrateFile", ReadCrateFile(fn.file))

Call_ReadWriteRead ==
    /\ fn.f = "ReadWriteRead"
    /\ LET first == ReadRecords(fn.data)
       IN  \E orders \in FieldOrders(first.records) :
              LET written == DatabaseBytes(first.records, orders)
              IN  Returns("ReadWriteRead",
                          [first |-> first, written |-> written, second |-> ReadRecords(written)])

Call_ReadDatabaseV2 ==
    /\ fn.f = "ReadDatabaseV2"
    /\ Returns("ReadDatabaseV2", ReadDatabaseV2(fn.file, fn.musicLibraryPath))

Call_IterTLVStream ==
    /\ fn.f = "IterTLVStream"
    /\ Returns("IterTLVStream", IterTLV(Stream(fn.pairs, fn.tail)))

Call_IterNestedTLV ==
    /\ fn.f = "IterNestedTLV"
    /\ Returns("IterNestedTLV", IterNestedTLV(Stream(fn.pairs, fn.tail)))

Call_parseRecord ==
    /\ fn.f = "parseRecord"
    /\ Returns("parseRecord", parseRecord(MakeChunk(fn.tag, EncodeU16BE(fn.text))))

Call_ReadRecords ==
    /\ fn.f = "ReadRecords"
    /\ Returns("ReadRecords", ReadRecordsRejecting(DatabaseOf(fn.payloads), fn.rejected))

Call_BuildCratePlans ==
    /\ fn.f = "BuildCratePlans"
    /\ \E order \in RangeOrders(fn.libraryMap) :
          Returns("BuildCratePlans",
                  BuildCratePlans(fn.libraryMap, order, fn.prefix, fn.seratoRoot))

Call_CleanTwice ==
    /\ fn.f = "CleanTwice"
    /\ LET first == CleanDatabaseRecords(fn.records, fn.removeDuplicates, fn.requireMetadata)
       IN  Returns("CleanTwice",
                   [first  |-> first,
                    second |-> CleanDatabaseRecords(first.records, fn.removeDuplicates,
                                                    fn.requireMetadata)])

\* The records at the indexes outside `removed`.
Kept(records, removed) ==
    LET idx == {k \in 1..Len(records) : k \notin removed}
        nth(n) == CHOOSE k \in idx : Cardinality({j \in idx : j <= k}) = n
    IN  [n \in 1..Cardinality(idx) |-> records[nth(n)]]

Call_Rewrite ==
    /\ fn.f = "Rewrite"
    /\ LET read    == ReadRecordsRejecting(Stream(fn.chunks, <<>>), fn.rejected)
           records == Kept(read.records, fn.rewrite.removed) \o fn.rewrite.new
       IN  \E orders \in FieldOrders(records) :
              Returns("Rewrite", [read |-> read, written |-> DatabaseBytes(records, orders)])

NextFn ==
    \/ Call_CleanPath
    \/ Call_DetectNewTracks
    \/ Call_CleanDatabaseRecords
    \/ Call_IterTLV
    \/ Call_WriteReadCrate
    \/ Call_ReadCrateFile
    \/ Call_ReadWriteRead
    \/ Call_ReadDatabaseV2
    \/ Call_IterTLVStream
    \/ Call_IterNestedTLV
    \/ Call_parseRecord
    \/ Call_ReadRecords
    \/ Call_BuildCratePlans
    \/ Call_CleanTwice
    \/ Call_Rewrite

SpecFn ==
    InitFn /\ [][NextFn]_vars

(***************************************************************************)
(* Properties of the orchestration (app.go) and of the database files.     *)
(***************************************************************************)
IsPrefix(s, t) ==
    Len(s) <= Len(t) /\ SubSeq(t, 1, Len(s)) = s

\* The SyncLibrary invocations that have reached or passed the crate loop and
\* still hold their plans.
PastPlanning ==
    {i \in Invocations : inv[i].pc \in {"s_crate", "s_backup", "s_write"}}

\* C1: whenever SyncLibrary or CleanDatabase is about to rewrite the database
\* file, some backup file <db-path>.backup.<unix-seconds> exists whose content
\* equals the content the database file has at that moment.
C1_BackupBeforeRewrite ==
    \A i \in Invocations :
        inv[i].pc \in {"s_write", "c_write"} =>
            \E t \in 0..MaxTime : backups[<<inv[i].dbPath, t>>] = db[inv[i].dbPath]

\* C2: an operation whose call of BackupDatabase returned an error does not go
\* on to call WriteDatabaseV2Records: it never stands before the write and has
\* made no database write.
C2_BackupErrorStopsWrite ==
    \A i \in Invocations :
        "backup" \in inv[i].failed =>
            /\ inv[i].pc \notin {"s_write", "c_write"}
            /\ inv[i].dbWrite = "none"

\* C3: in SyncLibrary, for every crate plan the loop has passed, WriteCrateFile
\* was called for the plan if and only if some track path of the plan equals
\* BuildPtrk(prefix, p) for a newly detected track p; the plan the loop is about
\* to write holds such a track, and no crate file of a plan without one has been
\* modified by the invocation.
C3_CrateWrittenIffAffected ==
    \A i \in PastPlanning :
        LET me == inv[i]
            Affected(k) ==
                \E t \in 1..Len(me.cratePlans[k].TrackPaths), n \in 1..Len(me.newRelativePaths) :
                    me.cratePlans[k].TrackPaths[t] = BuildPtrk(me.libraryPrefix, me.newRelativePaths[n])
        IN  /\ \A k \in 1..Len(me.cratePlans) :
                  /\ k < me.planIdx => (k \in me.crateCalls <=> Affected(k))
                  /\ k >= me.planIdx => k \notin me.crateCalls
                  /\ ~Affected(k) => me.cratePlans[k].CratePath \notin me.crateMods
            /\ me.pc = "s_crate" => me.planIdx \in 1..Len(me.cratePlans) /\ Affected(me.planIdx)
            /\ me.pc # "s_crate" => me.planIdx = Len(me.cratePlans) + 1

\* C3 witness: a SyncLibrary past its crate loop that has written the crate of
\* one plan and left the crate of another plan alone.
C3_Witness ==
    \E i \in PastPlanning :
        /\ inv[i].pc = "s_backup"
        /\ inv[i].crateCalls # {}
        /\ inv[i].crateMods # {}
        /\ \E k \in 1..Len(inv[i].cratePlans) : k \notin inv[i].crateCalls

\* Every scanned path of the invocation is in the stripped path set it read.
NoNewTracks(i) ==
    \A d \in DOMAIN inv[i].libraryMap : \A k \in 1..Len(inv[i].libraryMap[d]) :
        CleanPath(inv[i].libraryMap[d][k]) \in inv[i].pfilSet

\* C4: a SyncLibrary that detects no new tracks modifies no crate file and does
\* not modify the database file: its scan and its read change no file, and when
\* every scanned path is in the stripped path set of the database the planning
\* step returns at once, with no file changed, no crate file modified and no
\* database write made by the invocation.
C4_NoNewTracksNoWrites ==
    [][\A i \in Invocations :
          /\ (inv[i].pc \in {"s_scan", "s_read", "s_plan"} /\ inv'[i] # inv[i]) =>
                (crates' = crates /\ db' = db /\ backups' = backups)
          /\ (inv[i].pc = "s_plan" /\ NoNewTracks(i) /\ inv'[i] # inv[i]) =>
                /\ inv'[i].pc = "done"
                /\ inv'[i].result = "ok"
                /\ inv'[i].summary = [new |-> 0, added |-> 0, crates |-> 0]
                /\ inv'[i].crateMods = {}
                /\ inv'[i].dbWrite = "none"]_vars

\* C4 witness: a SyncLibrary has returned from its planning step with no new
\* track, on a database that holds records.
C4_Witness ==
    \E i \in Invocations :
        /\ inv[i].op = "sync"
        /\ inv[i].result = "ok"
        /\ inv[i].steps = <<"config", "scan", "read", "plan">>
        /\ inv[i].summary.new = 0
        /\ db[SeratoDir].exists /\ Len(db[SeratoDir].recs) > 0

\* C5: a SyncLibrary that finds new tracks and writes the database successfully
\* leaves in the database file the record sequence the file held before, which
\* is the sequence the invocation read, in the same order, followed by one
\* record per new track that holds only pfil = BuildPtrk(prefix, relative path).
C5_NewRecordsAppended ==
    [][\A i \in Invocations :
          (inv[i].pc = "s_write" /\ inv'[i].dbWrite = "ok") =>
              LET me      == inv[i]
                  before  == db[me.dbPath]
                  after   == db'[me.dbPath]
                  new     == me.newRelativePaths
              IN  /\ Len(new) > 0
                  /\ before.exists /\ before.recs = me.existingRecords
                  /\ after.exists /\ ~after.torn
                  /\ Len(after.recs) = Len(before.recs) + Len(new)
                  /\ \A k \in 1..Len(before.recs) : after.recs[k] = before.recs[k]
                  /\ \A k \in 1..Len(new) :
                        after.recs[Len(before.recs) + k] =
                            [pfil |-> BuildPtrk(me.libraryPrefix, new[k])]]_vars

\* C5 witness: a SyncLibrary has added two records behind the three records
\* the database held.
C5_Witness ==
    \E i \in Invocations :
        /\ inv[i].op = "sync"
        /\ inv[i].dbWrite = "ok"
        /\ inv[i].summary.added = 2
        /\ db[SeratoDir].exists
        /\ Len(db[SeratoDir].recs) = 5
        /\ SubSeq(db[SeratoDir].recs, 1, 3) = <<RecX, RecHb, RecTd>>

\* C6: a database rewrite that fails leaves the database file with the content
\* it had before the rewrite.
C6_FailedWriteKeepsDatabase ==
    [][\A i \in Invocations :
          (inv[i].pc \in {"s_write", "c_write"} /\ inv'[i].dbWrite = "failed") =>
              db' = db]_vars

\* C7: a SyncLibrary that ends at its configuration check, at its scan or at
\* its database read has returned a non-nil error and has written no crate file
\* and no database file.
C7_BadInputReturnsError ==
    \A i \in Invocations :
        (inv[i].op = "sync" /\ inv[i].pc = "done" /\ Len(inv[i].steps) <= 3) =>
            /\ inv[i].result = "error"
            /\ inv[i].crateMods = {}
            /\ inv[i].dbWrite = "none"

\* C8: a SyncLibrary whose backup failed returns a non-nil error and has
\* modified no crate file.
C8_BackupFailureFatal ==
    \A i \in Invocations :
        (inv[i].op = "sync" /\ inv[i].pc = "done" /\ "backup" \in inv[i].failed) =>
            /\ inv[i].result = "error"
            /\ inv[i].crateMods = {}

\* C9 as stated: CleanDatabase performs its steps, after the configuration
\* check, in the order read, backup, clean, write.
C9_ReadBackupCleanWrite ==
    \A i \in Invocations :
        inv[i].op = "clean" =>
            IsPrefix(inv[i].steps, <<"config", "read", "backup", "clean", "write">>)

\* C9: CleanDatabase performs its steps, after the configuration check, in the
\* order backup, read, clean, write: the database is read only after the backup
\* has succeeded, the write comes last, and a CleanDatabase that returns before
\* the write has made no database write.
C9_BackupReadCleanWrite ==
    \A i \in Invocations :
        inv[i].op = "clean" =>
            /\ IsPrefix(inv[i].steps, <<"config", "backup", "read", "clean", "write">>)
            /\ Len(inv[i].steps) >= 3 => "backup" \notin inv[i].failed
            /\ Len(inv[i].steps) < 5 => inv[i].dbWrite = "none"

\* C9 witness: a CleanDatabase has made all its steps and written the database.
C9_Witness ==
    \E i \in Invocations :
        /\ inv[i].op = "clean"
        /\ inv[i].steps = <<"config", "backup", "read", "clean", "write">>
        /\ inv[i].dbWrite = "ok"

\* C10: at any moment at most one of SyncLibrary, CleanDatabase and
\* GenerateReport is in progress.
C10_AtMostOneInProgress ==
    Cardinality(InProgress) <= 1

\* C11: the reads of the configuration within one SyncLibrary invocation observe
\* the same configuration: when the invocation plans its crates, the Serato
\* directory of the configuration is the one its database was read from.
C11_SyncSeesOneConfig ==
    \A i \in Invocations :
        inv[i].pc = "s_plan" =>
            /\ ~config.nil
            /\ config.SeratoDBPath = inv[i].dbPath

\* C12: a backup file, once it exists, is not modified, overwritten or deleted
\* by any later step of the program.
C12_BackupsKept ==
    [][\A k \in DOMAIN backups : backups[k].exists => backups'[k] = backups[k]]_vars

\* C13: CleanPath is idempotent: CleanPath of the value CleanPath has returned
\* is that value.
C13_CleanPathIdempotent ==
    Returned("CleanPath") => CleanPath(fn.ret[1]) = fn.ret[1]

\* C14: DetectNewTracks reports a scanned path if and only if CleanPath of the
\* path is not in the stripped path set, and reports the scanned paths as they
\* are, in the order of the input list.
C14_DetectNewTracks ==
    Returned("DetectNewTracks") =>
        LET in  == fn.trackPaths
            out == fn.ret[1]
            new == {k \in 1..Len(in) : CleanPath(in[k]) \notin fn.existingPfilSet}
        IN  /\ Len(out) = Cardinality(new)
            /\ \A k \in new : out[Cardinality({m \in new : m <= k})] = in[k]

\* C14 witness: of three scanned paths the second, which CleanPath changes into
\* a path of the set, is left out and the others are reported in their order.
C14_Witness ==
    /\ Returned("DetectNewTracks")
    /\ Len(fn.trackPaths) = 3
    /\ fn.trackPaths[2] = <<"/", "a">>
    /\ fn.trackPaths[1] # fn.trackPaths[3]
    /\ fn.ret[1] = <<fn.trackPaths[1], fn.trackPaths[3]>>

\* The outcome the cleanup is to give to record k of the list: the first that
\* matches, a duplicate being a record whose lowercased, forward-slashed pfil is
\* that of an earlier kept record.
RECURSIVE Outcome(_, _, _, _)
Outcome(records, k, removeDuplicates, requireMetadata) ==
    LET r          == records[k]
        blank(tag) == tag \notin DOMAIN r \/ \A i \in 1..Len(r[tag]) : r[tag][i] = " "
        norm(j)    == ToLower([i \in 1..Len(records[j].pfil) |->
                          IF records[j].pfil[i] = "\\" THEN "/" ELSE records[j].pfil[i]])
    IN  IF blank("pfil") THEN "removed_no_path"
        ELSE IF Len(r.pfil) < 3 \/ \E i \in 1..Len(r.pfil) : r.pfil[i] = NUL
        THEN "removed_corrupted"
        ELSE IF requireMetadata /\ blank("ttit") /\ blank("tart") /\ blank("talb")
        THEN "removed_no_metadata"
        ELSE IF removeDuplicates
                /\ \E j \in 1..(k - 1) :
                      /\ Outcome(records, j, removeDuplicates, requireMetadata) = "kept"
                      /\ norm(j) = norm(k)
        THEN "removed_duplicates"
        ELSE "kept"

\* C15: CleanDatabaseRecords gives each record the first matching outcome of
\* removed_no_path, removed_corrupted, removed_no_metadata, removed_duplicates
\* and kept, counts each outcome in its own counter, and returns the kept
\* records in input order. (Every pfil of the model's records is text.)
C15_CleanupOutcomes ==
    Returned("CleanDatabaseRecords") =>
        LET in     == fn.records
            out    == fn.ret[1]
            With(o) == {k \in 1..Len(in) :
                          Outcome(in, k, fn.removeDuplicates, fn.requireMetadata) = o}
            kept   == With("kept")
        IN  /\ Len(out.records) = Cardinality(kept)
            /\ \A k \in kept : out.records[Cardinality({m \in kept : m <= k})] = in[k]
            /\ out.stats = [OriginalCount     |-> Len(in),
                            RemovedNoPath     |-> Cardinality(With("removed_no_path")),
                            RemovedNoMetadata |-> Cardinality(With("removed_no_metadata")),
                            RemovedDuplicates |-> Cardinality(With("removed_duplicates")),
                            RemovedCorrupted  |-> Cardinality(With("removed_corrupted")),
                            FinalCount        |-> Cardinality(kept)]

\* C15 witness: of three records with the same path the cleanup has kept the
\* first, removed the second for its missing metadata and the third as a
\* duplicate of the first.
C15_Witness ==
    /\ Returned("CleanDatabaseRecords")
    /\ fn.removeDuplicates /\ fn.requireMetadata
    /\ fn.records = <<[pfil |-> <<"a", "/", "b">>, ttit |-> <<"t">>],
                      [pfil |-> <<"a", "/", "b">>],
                      [pfil |-> <<"A", "\\", "B">>, tart |-> <<"r">>]>>
    /\ fn.ret[1].records = <<fn.records[1]>>
    /\ fn.ret[1].stats.RemovedNoMetadata = 1
    /\ fn.ret[1].stats.RemovedDuplicates = 1

\* C16: the cleanup with remove-duplicates and without require-metadata, given
\* the records with pfil C:\Music\a.mp3 and /Music/a.mp3, keeps one of them and
\* counts the other as a duplicate.
C16_DriveLetterDuplicate ==
    (/\ Returned("CleanDatabaseRecords")
     /\ fn.records = <<RecWindows, RecUnix>>
     /\ fn.removeDuplicates /\ ~fn.requireMetadata) =>
        /\ Len(fn.ret[1].records) = 1
        /\ fn.ret[1].stats.RemovedDuplicates = 1
        /\ fn.ret[1].stats.FinalCount = fn.ret[1].stats.OriginalCount - 1

\* C19: MakeChunk(tag, payload) is the four tag bytes, then the length of the
\* payload as a 32-bit big-endian integer, then the payload, and IterTLV over
\* the chunks of a list of (tag, payload) pairs put together returns, without
\* an error, the pairs in their order. (The payloads are shorter than 2^32
\* bytes, the lengths the four bytes can hold.)
C19_TLVRoundTrip ==
    Returned("IterTLV") =>
        LET in  == fn.pairs
            out == fn.ret[1]
        IN  /\ \A k \in 1..Len(in) :
                  LET c == out.made[k]
                      p == in[k].payload
                  IN  /\ Len(c) = 8 + Len(p)
                      /\ SubSeq(c, 1, 4) = in[k].tag
                      /\ \A j \in 5..8 : c[j] \in 0..255
                      /\ c[5] * 16777216 + c[6] * 65536 + c[7] * 256 + c[8] = Len(p)
                      /\ SubSeq(c, 9, Len(c)) = p
            /\ ~out.iter.err
            /\ Len(out.iter.chunks) = Len(in)
            /\ \A k \in 1..Len(in) :
                  /\ out.iter.chunks[k].Tag = in[k].tag
                  /\ out.iter.chunks[k].Value = in[k].payload
                  /\ out.iter.chunks[k].Size = Len(in[k].payload)

\* C19 witness: IterTLV has returned three chunks of different payloads, one
\* of them of 256 bytes and one empty.
C19_Witness ==
    /\ Returned("IterTLV")
    /\ Len(fn.pairs) = 3
    /\ Len(fn.pairs[1].payload) = 256
    /\ fn.pairs[2].payload = <<>>
    /\ fn.pairs[3].payload = <<7>>
    /\ fn.pairs[1].tag # fn.pairs[3].tag
    /\ Len(fn.ret[1].iter.chunks) = 3

C17_ReadWriteRead ==
    Returned("ReadWriteRead") =>
        LET first   == fn.ret[1].first
            second  == fn.ret[1].second
            written == IterTLV(fn.ret[1].written)
        IN  /\ ~first.err /\ ~second.err
            /\ second.records = first.records
            /\ \A k \in 1..Len(first.records) : \A tag \in DOMAIN first.records[k] :
                  /\ (tag \in TextTags) <=> (first.records[k][tag].type = "string")
                  /\ (tag \notin TextTags) =>
                        second.records[k][tag] = Bytes(first.records[k][tag].v)
            /\ ~written.err
            /\ Len(written.chunks) = 1 + Len(first.records)
            /\ written.chunks[1].Tag = Vrsn
            /\ \A k \in 2..Len(written.chunks) : written.chunks[k].Tag = Otrk

\* C17 witness: a database of three records, a leaf of bytes in the first, a
\* title that ends in a zero byte in the second and no leaf in the third, has
\* been read, written and read again.
C17_Witness ==
    /\ Returned("ReadWriteRead")
    /\ Len(fn.ret[1].second.records) = 3
    /\ fn.ret[1].second.records[1] = (Uadd :> Bytes(<<1, 0>>)) @@ (Pfil :> String(<<97>>))
    /\ DOMAIN fn.ret[1].second.records[2] = {Pfil, Ttit}
    /\ DOMAIN fn.ret[1].second.records[3] = {}

\* C20: ReadDatabaseV2 that returns without an error returns every record of
\* the file in the record list, CleanPath of the library path as the prefix,
\* and as stripped path set exactly the paths r such that a returned record
\* has a pfil with CleanPath(pfil) = prefix + "/" + r; with the empty prefix
\* the set is CleanPath(pfil) over the records that have a pfil.
C20_StrippedPathSet ==
    (Returned("ReadDatabaseV2") /\ ~fn.ret[1].err) =>
        LET out     == fn.ret[1]
            prefix  == CleanPath(fn.musicLibraryPath)
            cleaned == {CleanPath(out.records[k]["pfil"]) :
                          k \in {i \in 1..Len(out.records) : "pfil" \in DOMAIN out.records[i]}}
        IN  /\ out.records = fn.file.recs
            /\ out.libraryPrefix = prefix
            /\ out.pfilSet =
                  IF prefix = <<>> THEN cleaned
                  ELSE UNION {{SubSeq(c, k, Len(c)) : k \in {i \in 1..(Len(c) + 1) :
                                  c = prefix \o <<"/">> \o SubSeq(c, i, Len(c))}} : c \in cleaned}

\* C20 witness: a file of a record under the prefix M, a record of another
\* root and a record without pfil has been read with the library path /M/:
\* all three are returned and the set holds the one path a.
C20_Witness ==
    /\ Returned("ReadDatabaseV2")
    /\ ~fn.ret[1].err
    /\ fn.musicLibraryPath = <<"/", "M", "/">>
    /\ Len(fn.ret[1].records) = 3
    /\ \E k \in 1..3 : "pfil" \notin DOMAIN fn.ret[1].records[k]
    /\ \E k \in 1..3 : /\ "pfil" \in DOMAIN fn.ret[1].records[k]
                       /\ fn.ret[1].records[k]["pfil"] = <<"N", "/", "a">>
    /\ fn.ret[1].pfilSet = {<<"a">>}

\* The chunks of a list of (tag, payload) pairs.
ChunksOf(pairs) ==
    [k \in 1..Len(pairs) |-> [Tag |-> pairs[k].tag, Size |-> Len(pairs[k].payload),
                              Value |-> pairs[k].payload]]

\* C21: IterTLV of a stream that ends on a chunk boundary, the empty stream
\* among them, returns the chunks and no error; IterTLV of a stream that ends
\* inside a header of 8 bytes or before the declared length of a payload has
\* been read returns an error and no chunk.
C21_IterTLVStrict ==
    Returned("IterTLVStream") =>
        IF fn.tail = <<>>
        THEN fn.ret[1] = [err |-> FALSE, chunks |-> ChunksOf(fn.pairs)]
        ELSE fn.ret[1] = [err |-> TRUE, chunks |-> <<>>]

\* C21 witness: IterTLV has returned an error for a stream of two whole chunks
\* and a payload that is one byte short.
C21_Witness ==
    /\ Returned("IterTLVStream")
    /\ Len(fn.pairs) = 2
    /\ fn.tail = Otrk \o <<0, 0, 0, 2, 9>>
    /\ fn.ret[1].err

\* C22: IterNestedTLV returns the whole chunks that precede the first position
\* where fewer than 8 bytes remain or where the declared length runs past the
\* end of the buffer, and nothing of what follows that position.
C22_IterNestedTLVLenient ==
    Returned("IterNestedTLV") => fn.ret[1] = ChunksOf(fn.pairs)

\* C22 witness: IterNestedTLV has returned the two chunks that precede a header
\* whose declared length runs past the end of the buffer.
C22_Witness ==
    /\ Returned("IterNestedTLV")
    /\ fn.tail = Otrk \o <<127, 255, 255, 255, 9>>
    /\ Len(fn.ret[1]) = 2
    /\ fn.ret[1][1].Value = <<7, 8>>

\* C23: a text stored under a text tag is read by parseRecord as the stored
\* text without its U+0000 characters at the end, whatever the last other
\* character is, U+0100 included.
C23_TrailingNulPairs ==
    Returned("parseRecord") => fn.ret[1][fn.tag] = String(TrimRight(fn.text, 0))

\* The payload holds a text leaf that the decoder rejects.
FailsToDecode(payload, rejected) ==
    LET leaves == IterNestedTLV(payload)
    IN  \E k \in 1..Len(leaves) :
           leaves[k].Tag \in TextTags /\ TrimRight(leaves[k].Value, 0) \in rejected

\* C24: ReadDatabaseV2 returns no error when a text leaf of an otrk fails to
\* decode; it returns, in the order of the file, the records of the otrk
\* chunks that have no such leaf, those before and those after the otrk that
\* fails.
C24_RecordSkipped ==
    Returned("ReadRecords") =>
        LET kept == SelectSeq(fn.payloads, LAMBDA p : ~FailsToDecode(p, fn.rejected))
        IN  /\ ~fn.ret[1].err
            /\ fn.ret[1].records = [k \in 1..Len(kept) |-> parseRecord(kept[k])]

\* C24 witness: of three otrk chunks the second holds a leaf that fails to
\* decode; the first and the third have been returned.
C24_Witness ==
    /\ Returned("ReadRecords")
    /\ Len(fn.payloads) = 3
    /\ ~FailsToDecode(fn.payloads[1], fn.rejected)
    /\ FailsToDecode(fn.payloads[2], fn.rejected)
    /\ ~FailsToDecode(fn.payloads[3], fn.rejected)
    /\ fn.payloads[1] # fn.payloads[3]
    /\ fn.ret[1].records = <<parseRecord(fn.payloads[1]), parseRecord(fn.payloads[3])>>

\* The crate file names of the directories E, E/T/2, H and E%%T%%2.
CrateNames ==
    (<<"E">> :> <<"E", ".", "c", "r", "a", "t", "e">>)
        @@ (<<"E", "%", "%", "T", "%", "%", "2">> :>
               <<"E", "%", "%", "T", "%", "%", "2", ".", "c", "r", "a", "t", "e">>)
        @@ (<<"E", "/", "T", "/", "2">> :>
               <<"E", "%", "%", "T", "%", "%", "2", ".", "c", "r", "a", "t", "e">>)
        @@ (<<"H">> :> <<"H", ".", "c", "r", "a", "t", "e">>)

\* C25: BuildCratePlans returns one plan for each entry of the library map
\* whose key is not "." and none for the root entry; the crate path of the plan
\* is the file of Subcrates in the Serato root named after the relative
\* directory with every separator replaced by %%, followed by .crate; its
\* tracks are, in the order of the entry, the files of the entry, each
\* preceded by the prefix and "/" when the prefix is not empty.
C25_CratePlans ==
    Returned("BuildCratePlans") =>
        LET plans == fn.ret[1]
            dirs  == DOMAIN fn.libraryMap \ {<<".">>}
        IN  /\ Len(plans) = Cardinality(dirs)
            /\ \A d \in dirs :
                  \E k \in 1..Len(plans) :
                     /\ plans[k].CratePath = [root |-> fn.seratoRoot, name |-> CrateNames[d]]
                     /\ Len(plans[k].TrackPaths) = Len(fn.libraryMap[d])
                     /\ \A i \in 1..Len(fn.libraryMap[d]) :
                           plans[k].TrackPaths[i] =
                              IF fn.prefix = <<>> THEN fn.libraryMap[d][i]
                              ELSE fn.prefix \o <<"/">> \o fn.libraryMap[d][i]

\* C25 witness: the plans of a library with files in the root, in E and in
\* E/T/2, built with the prefix M: two plans, one of them of E%%T%%2.crate with
\* the track M/E/T/2/a.
C25_Witness ==
    /\ Returned("BuildCratePlans")
    /\ DOMAIN fn.libraryMap = {<<".">>, <<"E">>, <<"E", "/", "T", "/", "2">>}
    /\ fn.prefix = <<"M">>
    /\ Len(fn.ret[1]) = 2
    /\ fn.ret[1][1].CratePath.name = CrateNames[<<"E", "/", "T", "/", "2">>]
    /\ fn.ret[1][1].TrackPaths = << <<"M", "/", "E", "/", "T", "/", "2", "/", "a">> >>

\* C26: after a SyncLibrary whose database write succeeded, the next
\* SyncLibrary, with the same configuration and library, that reaches its
\* planning step detects no new track and writes no crate file, no backup file
\* and no database file.
C26_SyncIdempotent ==
    (/\ inv[1].op = "sync" /\ inv[1].dbWrite = "ok"
     /\ inv[2].op = "sync" /\ inv[2].pc \notin {"s_scan", "s_read", "s_plan"}
     /\ \E k \in 1..Len(inv[2].steps) : inv[2].steps[k] = "plan") =>
        /\ inv[2].pc = "done"
        /\ inv[2].summary.new = 0
        /\ inv[2].crateMods = {}
        /\ inv[2].dbWrite = "none"
        /\ \A k \in 1..Len(inv[2].steps) : inv[2].steps[k] \notin {"crate", "backup", "write"}

\* C27: the plans BuildCratePlans returns for the directories of a library
\* have crate paths that differ from one another: no two plans of a sync write
\* the same crate file.
C27_DistinctCratePaths ==
    Returned("BuildCratePlans") =>
        \A j, k \in 1..Len(fn.ret[1]) :
            j # k => fn.ret[1][j].CratePath # fn.ret[1][k].CratePath

\* The record holds only a path, as the records SyncLibrary inserts.
OnlyPfil(record) ==
    DOMAIN record = {"pfil"}

\* Invocation i has written the database and no later invocation has.
LastWriter(i) ==
    /\ inv[i].dbWrite = "ok"
    /\ \A j \in Invocations : j > i => inv[j].dbWrite = "none"

CountsAddUp(stats) ==
    stats.OriginalCount = stats.RemovedNoPath + stats.RemovedCorrupted
                            + stats.RemovedNoMetadata + stats.RemovedDuplicates
                            + stats.FinalCount

\* C29: CleanDatabaseRecords applied with the same flags to the list it has
\* returned returns that list and removes nothing: the four removal counters
\* are 0 and final = original; and in either call original is the sum of the
\* four removal counters and final.
C29_CleanIdempotent ==
    Returned("CleanTwice") =>
        LET first  == fn.ret[1].first
            second == fn.ret[1].second
        IN  /\ second.records = first.records
            /\ second.stats = [NoStats EXCEPT !.OriginalCount = Len(first.records),
                                              !.FinalCount = Len(first.records)]
            /\ first.stats.OriginalCount = Len(fn.records)
            /\ first.stats.FinalCount = Len(first.records)
            /\ CountsAddUp(first.stats)
            /\ CountsAddUp(second.stats)

\* C29 witness: a cleanup of three records has removed one without metadata
\* and one duplicate, and the cleanup of the record it kept has returned it.
C29_Witness ==
    /\ Returned("CleanTwice")
    /\ Len(fn.records) = 3
    /\ fn.ret[1].first.stats.RemovedNoMetadata = 1
    /\ fn.ret[1].first.stats.RemovedDuplicates = 1
    /\ Len(fn.ret[1].second.records) = 1

\* The records of the otrk chunks of a list of top-level chunks that have no
\* leaf the decoder rejects.
ReadableRecords(chunks, rejected) ==
    LET otrks == SelectSeq(chunks, LAMBDA c : c.tag = Otrk /\ ~FailsToDecode(c.payload, rejected))
    IN  [k \in 1..Len(otrks) |-> parseRecord(otrks[k].payload)]

\* C30: the file a rewrite of the database writes holds the vrsn chunk of the
\* version 2.0/Serato Scratch LIVE Database followed by one otrk chunk per
\* record that was read and kept, in their order, and, for SyncLibrary, per
\* new record, and nothing else: the otrk chunks skipped at the read and the
\* top-level chunks of another tag are not in it.
C30_RewriteHoldsRecordsOnly ==
    Returned("Rewrite") =>
        LET readable == ReadableRecords(fn.chunks, fn.rejected)
            expected == SelectSeq([k \in 1..Len(readable) |->
                                      IF k \in fn.rewrite.removed THEN <<>> ELSE <<readable[k]>>],
                                  LAMBDA x : x # <<>>)
            out      == IterTLV(fn.ret[1].written)
        IN  /\ ~fn.ret[1].read.err
            /\ fn.ret[1].read.records = readable
            /\ ~out.err
            /\ Len(out.chunks) = 1 + Len(expected) + Len(fn.rewrite.new)
            /\ out.chunks[1].Tag = Vrsn
            /\ DecodeU16BE(out.chunks[1].Value) = DatabaseVrsn
            /\ \A k \in 2..Len(out.chunks) : out.chunks[k].Tag = Otrk
            /\ \A k \in 1..Len(expected) :
                  parseRecord(out.chunks[1 + k].Value) = expected[k][1]
            /\ \A k \in 1..Len(fn.rewrite.new) :
                  parseRecord(out.chunks[1 + Len(expected) + k].Value) = fn.rewrite.new[k]

\* C30 witness: SyncLibrary has rewritten a file of an osrt chunk, an otrk
\* chunk whose title fails to decode and an otrk chunk of a record without
\* fields: the file written holds the vrsn chunk, the otrk chunk of the record
\* without fields and the otrk chunk of the new record.
C30_Witness ==
    /\ Returned("Rewrite")
    /\ fn.rewrite.op = "sync"
    /\ Len(fn.rewrite.new) = 1
    /\ fn.rejected = {<<1>>}
    /\ Len(fn.chunks) = 3
    /\ fn.chunks[1].tag = Osrt
    /\ FailsToDecode(fn.chunks[2].payload, fn.rejected)
    /\ fn.chunks[3] = [tag |-> Otrk, payload |-> <<>>]
    /\ Len(IterTLV(fn.ret[1].written).chunks) = 3
====
